---- MODULE Spec2Model ----
(***************************************************************************)
(* Model of the KVM backup tool: the backup orchestrator                   *)
(* (backup_manager.py, BackupManager), the schedule engine (scheduler.py,  *)
(* ScheduledBackup and BackupScheduler) and the recurrence computation     *)
(* (ScheduledBackup._calculate_next_run).                                  *)
(*                                                                         *)
(* These specifications share the module:                                  *)
(*   Spec       one execution of BackupManager.execute_backup, step by     *)
(*              step, every collaborator call (hypervisor, ssh transfer,   *)
(*              hook) drawing its outcome: success, a reported failure     *)
(*              (False / None) or a raised exception;                      *)
(*   SpecSched  the scheduler: add/update of definitions, the dispatch     *)
(*              loop, the backup threads it spawns and their unlocked      *)
(*              saves, the clock;                                          *)
(*   SpecStore  add/update/remove of definitions, the clock and the        *)
(*              restart of the process (load_scheduled_backups);           *)
(*   SpecDue    get_due_backups applied to bounded scheduler states;       *)
(*   SpecRecur  _calculate_next_run applied to bounded inputs;             *)
(*   SpecRoundTrip  from_dict(to_dict(d)) applied to bounded objects;      *)
(*   SpecDirs   one execution of execute_backup for one VM while the clock *)
(*              advances, with the remote directories it names;            *)
(*   SpecRate   BackupResult.success_rate applied to bounded vm_results;   *)
(*   SpecManage add/update/remove of definitions, known and unknown ids;   *)
(*   SpecLoop   the dispatch loop and the runs it starts (SpecLoopLive:    *)
(*              with the loop thread scheduled fairly);                    *)
(*   SpecRestart  the loop after a restart on a file a former process      *)
(*              left;                                                      *)
(*   SpecIds    add/update/remove of definitions, where an update may name *)
(*              any attribute, the id included;                            *)
(*   SpecRemove the loop, the runs it starts with their saves, and the     *)
(*              removal of a definition whose run is going on;             *)
(*   SpecLoops  start_scheduler and stop_scheduler called in any order,    *)
(*              with every loop thread they start.                         *)
(*                                                                         *)
(* The libvirt connection bracket (LibvirtManager.__enter__/__exit__) is   *)
(* taken as non-raising; the capability calls made inside it may fail.     *)
(***************************************************************************)
EXTENDS Integers, Sequences, FiniteSets, TLC

\* ------------------------------------------------------------------ bounds
\* longest job.vm_names list explored
MaxVMs == 2
\* number of disk paths of each VM (VMInfo.disk_paths)
MaxDisks == 1

\* names a job may list; vm_names may repeat a name
VMNames == {"vm1", "vm2", "ghost"}

\* the hypervisor's inventory when execute_backup starts: a running domain,
\* a stopped one, and a name that is not in the inventory
Inventory ==
    [n \in VMNames |->
        IF n = "vm1" THEN "running" ELSE IF n = "vm2" THEN "shutdown" ELSE "absent"]

\* abstract byte sizes of the artifacts (exported definition, libvirt
\* config file, disk image); DiskSize \div 10 is the incremental estimate
DefSize == 1
CfgSize == 2
DiskSize == 10

VARIABLES
    \* ---- backup orchestrator (one execute_backup call)
    job,            \* the BackupJob being executed
    pc,             \* position in execute_backup
    result,         \* the BackupResult
    idx,            \* position of the loop over job.vm_names (1-based)
    vm_result,      \* _backup_vm's vm_result dict
    res,            \* the strategy's own result dict
    exc,            \* exception in flight ("none" when there is none)
    disk_i,         \* position of the loop over vm_info.disk_paths
    vm_was_running, \* _backup_vm_traditional's local
    vm_state,       \* hypervisor: state of each domain, or "absent"
    snapshots,      \* hypervisor: number of snapshots of this run each VM holds
    calls,          \* collaborator calls of the current _backup_vm, in order
    remote_dir,     \* value create_directory returned for the destination
                    \* ("unset" once the first VM has been processed)
    vm_log,         \* orchestrator log records of the current _backup_vm
    job_log,        \* orchestrator log records of execute_backup itself
    ssh,            \* ssh connection: "none", "connected", "failed", "closed"
    summary,        \* the summary handed to the transfer, or NoSummary
    dirs,           \* the remote directories execute_backup has named so far:
                    \* pairs <<what the directory is for, its name>>
    \* ---- schedule engine
    now,            \* the clock (datetime.now())
    objs,           \* every ScheduledBackup object ever created, by id
    scheduled_backups, \* keys of BackupScheduler.scheduled_backups
    storage,        \* content of scheduled_backups.json
    threads,        \* the backup threads spawned by the dispatch loop
    loop_pc,        \* position of scheduler_loop
    due_backups,    \* the loop's local: result of get_due_backups
    ticks,          \* number of clock advances so far
    n_updates,      \* number of update_scheduled_backup calls so far
    n_restarts,     \* number of process restarts so far
    ret,            \* the last remove / update call and what it returned
    \* ---- recurrence computation
    rc_in,          \* the input recurrence spec and time
    rc_out,         \* the value _calculate_next_run returned, or the exception
    rt_in,          \* the ScheduledBackup object whose to_dict() is reloaded
    rt_out,         \* the value from_dict returned, or the unfinished object
    \* ---- success rate
    sr_in,          \* the vm_results of a BackupResult, in insertion order
    sr_out,         \* the value success_rate returned, or NoRate
    \* ---- dispatch loops (start_scheduler / stop_scheduler called freely)
    running,        \* BackupScheduler.running
    loops           \* the scheduler_loop threads started so far, in order

bvars == <<job, pc, result, idx, vm_result, res, exc, disk_i, vm_was_running,
           vm_state, snapshots, calls, remote_dir, vm_log, job_log, ssh, summary,
           dirs>>
svars == <<objs, scheduled_backups, storage, threads, loop_pc, due_backups, ticks,
           n_updates, n_restarts, ret>>
rvars == <<rc_in, rc_out, rt_in, rt_out, sr_in, sr_out>>
lvars == <<running, loops>>
vars == <<bvars, svars, rvars, lvars, now>>

\* =====================================================================
\*                     BACKUP ORCHESTRATOR (backup_manager.py)
\* =====================================================================

Modes == {"full", "incremental", "sync", "snapshot"}

\* outcomes of a hypervisor capability call that reports failure by its
\* return value (None / False) and may also raise
CallOutcomes == {"ok", "false", "raise"}

RECURSIVE SeqsOfLen(_, _)
SeqsOfLen(S, n) ==
    IF n = 0 THEN {<<>>}
    ELSE {Append(q, x) : q \in SeqsOfLen(S, n - 1), x \in S}

SeqsUpTo(S, n) == UNION {SeqsOfLen(S, k) : k \in 0..n}

\* models.BackupJob: the fields execute_backup reads. The two script
\* fields say whether a script path is set.
\* Jobs of more than one VM are explored without hooks and in the modes
\* full and incremental (sync and snapshot differ from full only in the
\* name of the destination); jobs of more than two VMs list distinct names
\* and are explored in mode full, not as dry runs.
Jobs ==
    {j \in [vm_names : SeqsUpTo(VMNames, MaxVMs),
            mode : Modes,
            dry_run : BOOLEAN,
            use_snapshots : BOOLEAN,
            pre_backup_script : BOOLEAN,
            post_backup_script : BOOLEAN] :
        /\ Len(j.vm_names) > 1 =>
              /\ ~j.pre_backup_script
              /\ ~j.post_backup_script
              /\ j.mode \in {"full", "incremental"}
        /\ Len(j.vm_names) > 2 =>
              /\ j.mode = "full"
              /\ ~j.dry_run
              /\ \A a \in DOMAIN j.vm_names, b \in DOMAIN j.vm_names :
                    a # b => j.vm_names[a] # j.vm_names[b]}

\* a vm_results entry; status "absent" stands for "no entry under this key",
\* method "none" for "no 'method' key"
NoEntry ==
    [status |-> "absent", snapshots_created |-> <<>>, files_backed_up |-> <<>>,
     size_bytes |-> 0, transferred_bytes |-> 0, error |-> "none",
     method |-> "none", vm_was_stopped |-> FALSE]

\* _backup_vm, lines 122-130
InitVMResult ==
    [NoEntry EXCEPT !.status = "pending"]

\* _backup_vm_with_snapshots lines 158-164, _backup_vm_traditional lines 205-211
InitStrategyResult(use_snapshots) ==
    [NoEntry EXCEPT !.status = "pending",
                    !.method = IF use_snapshots THEN "snapshot" ELSE "traditional"]

\* models.BackupResult before execute_backup has built one
NoResult ==
    [status |-> "none", end_time |-> "None", error_message |-> "None",
     vm_results |-> [n \in VMNames |-> NoEntry],
     total_size_bytes |-> 0, transferred_bytes |-> 0]

NoSummary == [written |-> "no", status |-> "none", end_time |-> "None"]

\* the snapshot name of the current VM (line 166); one per _backup_vm call
SnapshotName == "backup-snapshot"

CurVM == job.vm_names[idx]

Call(op, out) == <<op, out>>

\* the calls of a step whose exception e leaves the strategy's try block
Raised(e) == <<"raised", e>>

\* the handler an exception raised inside the strategy's try reaches
\* (line 188 for the snapshot strategy, line 240 for the traditional one)
StrategyHandler == IF job.use_snapshots THEN "snap_except" ELSE "trad_except"

\* execute_backup without its except clause: the exception leaves the call
ExecuteHandler_Uncaught == "raised"

\* where execute_backup's body goes when an exception reaches line 102
ExecuteHandler == "except"

\* _backup_vm without its handler: the failure leaves the loop over the VMs
VMHandler_Propagates == "finally"

\* where _backup_vm's own handler (lines 148-151) leaves the execution: the
\* exception is caught, _backup_vm returns the failed entry
VMHandler == "vm_done"

\* where the config/disk section continues when it is over
AfterTransfers == IF job.use_snapshots THEN "delete_snapshot" ELSE "restart_vm"

\* =====================================================================
\*            datetime AND THE RECURRENCE COMPUTATION (scheduler.py)
\* =====================================================================

\* a datetime value; microseconds are folded into the seconds
DateTime(y, mo, d, h, mi, sec) ==
    [year |-> y, month |-> mo, day |-> d, hour |-> h, minute |-> mi, second |-> sec]

IsLeap(y) == (y % 4 = 0 /\ y % 100 # 0) \/ y % 400 = 0

DaysInMonth(y, mo) ==
    IF mo \in {1, 3, 5, 7, 8, 10, 12} THEN 31
    ELSE IF mo \in {4, 6, 9, 11} THEN 30
    ELSE IF IsLeap(y) THEN 29 ELSE 28

RECURSIVE DaysBeforeYear(_)
DaysBeforeYear(y) ==
    IF y <= 2024 THEN 0
    ELSE DaysBeforeYear(y - 1) + (IF IsLeap(y - 1) THEN 366 ELSE 365)

RECURSIVE DaysBeforeMonth(_, _)
DaysBeforeMonth(y, mo) ==
    IF mo <= 1 THEN 0 ELSE DaysBeforeMonth(y, mo - 1) + DaysInMonth(y, mo - 1)

\* days since 1 January 2024, a Monday
Ordinal(dt) == DaysBeforeYear(dt.year) + DaysBeforeMonth(dt.year, dt.month) + dt.day - 1

\* datetime.weekday(): Monday is 0
weekday(dt) == Ordinal(dt) % 7

\* seconds since the start of 2024: the order of datetime values
Seconds(dt) == ((Ordinal(dt) * 24 + dt.hour) * 60 + dt.minute) * 60 + dt.second

NextDay(dt) ==
    IF dt.day < DaysInMonth(dt.year, dt.month) THEN [dt EXCEPT !.day = @ + 1]
    ELSE IF dt.month < 12 THEN [dt EXCEPT !.day = 1, !.month = @ + 1]
    ELSE [dt EXCEPT !.day = 1, !.month = 1, !.year = @ + 1]

\* dt + timedelta(days=n)
RECURSIVE AddDays(_, _)
AddDays(dt, n) == IF n <= 0 THEN dt ELSE AddDays(NextDay(dt), n - 1)

\* dt + 60 seconds (time.sleep(60) has returned)
AddMinute(dt) ==
    IF dt.minute < 59 THEN [dt EXCEPT !.minute = @ + 1]
    ELSE IF dt.hour < 23 THEN [dt EXCEPT !.minute = 0, !.hour = @ + 1]
    ELSE [NextDay(dt) EXCEPT !.minute = 0, !.hour = 0]

\* the value None of a datetime field, and the outcome "raised ValueError"
\* of a datetime computation: two values outside the calendar
None == DateTime(0, 0, 0, 0, 0, 0)
ValueError == DateTime(0, 0, 0, 0, 0, 1)

\* the outcomes "raised KeyError" (line 54, a day name missing from the
\* table) and "raised UnboundLocalError" (line 73, no branch assigned
\* next_run)
KeyError == DateTime(0, 0, 0, 0, 0, 2)
UnboundLocalError == DateTime(0, 0, 0, 0, 0, 3)

\* the exceptions _calculate_next_run can end in
Exceptions == {ValueError, KeyError, UnboundLocalError}

\* datetime.replace: the new value, or ValueError when the day does not
\* exist in the month
replace(dt) ==
    IF /\ dt.day >= 1 /\ dt.day <= DaysInMonth(dt.year, dt.month)
       /\ dt.hour \in 0..23 /\ dt.minute \in 0..59
    THEN dt ELSE ValueError

\* the day-name table of lines 52-53
days ==
    [d \in {"monday", "tuesday", "wednesday", "thursday", "friday", "saturday", "sunday"} |->
        CASE d = "monday" -> 0 [] d = "tuesday" -> 1 [] d = "wednesday" -> 2
          [] d = "thursday" -> 3 [] d = "friday" -> 4 [] d = "saturday" -> 5
          [] d = "sunday" -> 6]

\* lines 57-59
days_ahead(target_day, t) ==
    IF target_day - weekday(t) <= 0 THEN target_day - weekday(t) + 7
    ELSE target_day - weekday(t)

\* a test that keeps a slot equal to now
RollOver_Strict(next_run, t) == Seconds(next_run) < Seconds(t)

\* the test of lines 42 and 66: the slot is not after now
RollOver(next_run, t) == Seconds(next_run) <= Seconds(t)

\* a roll to the next month that forgets the year
NextMonth_SameYear(next_run, t) ==
    replace([next_run EXCEPT !.month = (t.month % 12) + 1])

\* lines 67-71: the slot's month becomes the month after now's, January of
\* the next year when now is in December
NextMonth(next_run, t) ==
    IF t.month = 12
    THEN replace([next_run EXCEPT !.year = t.year + 1, !.month = 1])
    ELSE replace([next_run EXCEPT !.month = t.month + 1])

\* ScheduledBackup._calculate_next_run at time t. schedule_time is the
\* parsed text: <<hour, minute>>, <<day name, hour, minute>> or
\* <<day of month, hour, minute>>; the result is a datetime or the
\* exception the call ends in
_calculate_next_run(schedule_type, schedule_time, t) ==
    CASE schedule_type = "daily" ->
            LET next_run == replace([t EXCEPT !.hour = schedule_time[1],
                                              !.minute = schedule_time[2],
                                              !.second = 0])
            IN  IF next_run = ValueError THEN ValueError
                ELSE IF RollOver(next_run, t) THEN AddDays(next_run, 1) ELSE next_run
      [] schedule_type = "weekly" ->
            LET next_run == replace([t EXCEPT !.hour = schedule_time[2],
                                              !.minute = schedule_time[3],
                                              !.second = 0])
            IN  IF schedule_time[1] \notin DOMAIN days THEN KeyError
                ELSE IF next_run = ValueError THEN ValueError
                ELSE AddDays(next_run, days_ahead(days[schedule_time[1]], t))
      [] schedule_type = "monthly" ->
            LET next_run == replace([t EXCEPT !.day = schedule_time[1],
                                              !.hour = schedule_time[2],
                                              !.minute = schedule_time[3],
                                              !.second = 0])
            IN  IF next_run = ValueError THEN ValueError
                ELSE IF RollOver(next_run, t) THEN NextMonth(next_run, t)
                ELSE next_run
      [] OTHER -> UnboundLocalError

\* the clock when the program starts: Wednesday 31 January 2024, 01:59
StartTime == DateTime(2024, 1, 31, 1, 59, 0)

\* no remove or update call made yet
NoReturn == [op |-> "none", id |-> 0, value |-> "none"]

\* what a remove or update call returned to its caller
Return(op, id, value) == [op |-> op, id |-> id, value |-> value]

InitSched ==
    /\ objs = <<>>
    /\ scheduled_backups = {}
    /\ storage = {}
    /\ threads = <<>>
    /\ loop_pc = "stopped"
    /\ due_backups = {}
    /\ ticks = 0
    /\ n_updates = 0
    /\ n_restarts = 0
    /\ ret = NoReturn

\* BackupScheduler.__init__ line 117; no start_scheduler call yet
InitLoops ==
    /\ running = FALSE
    /\ loops = <<>>

\* no recurrence computation under study
NoRecurrence == [schedule_type |-> "none", schedule_time |-> <<>>]

\* no object under study
NoObject == [id |-> "none"]

InitRoundTrip ==
    /\ rt_in = NoObject
    /\ rt_out = NoObject

\* a float, kept exact: the quotient num / den
Float(n, d) == [num |-> n, den |-> d]

\* no success rate computed: a quotient no float has
NoRate == Float(0, 0)

InitRate ==
    /\ sr_in = <<>>
    /\ sr_out = NoRate

InitRecur ==
    /\ rc_in = NoRecurrence
    /\ rc_out = None
    /\ InitRoundTrip
    /\ InitRate

InitBackup ==
    /\ job \in Jobs
    /\ pc = "start"
    /\ result = NoResult
    /\ idx = 1
    /\ vm_result = NoEntry
    /\ res = NoEntry
    /\ exc = "none"
    /\ disk_i = 1
    /\ vm_was_running = FALSE
    /\ vm_state = Inventory
    /\ snapshots = [n \in VMNames |-> 0]
    /\ calls = <<>>
    /\ remote_dir = "unset"
    /\ vm_log = {}
    /\ job_log = {}
    /\ ssh = "none"
    /\ summary = NoSummary
    /\ dirs = {}

\* no execute_backup call in progress
IdleBackup ==
    /\ job = [vm_names |-> <<>>, mode |-> "full", dry_run |-> FALSE,
              use_snapshots |-> FALSE, pre_backup_script |-> FALSE,
              post_backup_script |-> FALSE]
    /\ pc = "idle"
    /\ result = NoResult
    /\ idx = 1
    /\ vm_result = NoEntry
    /\ res = NoEntry
    /\ exc = "none"
    /\ disk_i = 1
    /\ vm_was_running = FALSE
    /\ vm_state = Inventory
    /\ snapshots = [n \in VMNames |-> 0]
    /\ calls = <<>>
    /\ remote_dir = "unset"
    /\ vm_log = {}
    /\ job_log = {}
    /\ ssh = "none"
    /\ summary = NoSummary
    /\ dirs = {}

Init ==
    /\ InitBackup
    /\ InitLoops
    /\ now = StartTime
    /\ InitSched
    /\ InitRecur

\* execute_backup lines 49-61: the result is created running
execute_backup ==
    /\ pc = "start"
    /\ result' = [NoResult EXCEPT !.status = "running"]
    /\ pc' = IF job.pre_backup_script THEN "pre_script" ELSE "connect"
    /\ UNCHANGED <<job, idx, vm_result, res, exc, disk_i, vm_was_running, vm_state,
                   snapshots, calls, remote_dir, vm_log, job_log, ssh, summary, dirs,
                   now, svars, rvars, lvars>>

\* _run_script (lines 477-494): every outcome is logged, none is raised
_run_script(which, out) ==
    IF out = "ok" THEN {<<"info", "backup_manager", which, "script completed successfully">>}
    ELSE IF out = "nonzero" THEN {<<"error", "backup_manager", which, "script failed">>}
    ELSE {<<"error", "backup_manager", which, "Error running script">>}

ScriptOutcomes == {"ok", "nonzero", "error"}

\* a _run_script that lets a failing script's error reach its caller
ScriptRaises_OnFailure(out) == out # "ok"

\* lines 479-494: the whole body of _run_script is inside its try, the
\* handler only logs: no outcome of the script reaches the caller
ScriptRaises(out) == FALSE

\* lines 60-61
PreBackupScript ==
    /\ pc = "pre_script"
    /\ \E out \in ScriptOutcomes :
          /\ job_log' = job_log \cup _run_script("pre-backup", out)
          /\ IF ScriptRaises(out)
             THEN /\ exc' = "script error"
                  /\ pc' = ExecuteHandler
             ELSE /\ exc' = exc
                  /\ pc' = "connect"
    /\ UNCHANGED <<job, result, idx, vm_result, res, disk_i, vm_was_running, vm_state,
                   snapshots, calls, remote_dir, vm_log, ssh, summary, dirs, now, svars,
                   rvars, lvars>>

\* lines 64-74: a failed connection raises, outside the inner try
connect ==
    /\ pc = "connect"
    /\ \E ok \in BOOLEAN :
          IF ok
          THEN /\ ssh' = "connected"
               /\ pc' = "create_remote_dir"
               /\ exc' = exc
          ELSE /\ ssh' = "failed"
               /\ exc' = "Failed to connect to backup server"
               /\ pc' = ExecuteHandler
    /\ UNCHANGED <<job, result, idx, vm_result, res, disk_i, vm_was_running, vm_state,
                   snapshots, calls, remote_dir, vm_log, job_log, summary, dirs, now,
                   svars, rvars, lvars>>

\* strftime('%Y-%m-%d_%H-%M-%S'): the fields of the format, in its order
strftime(dt) == <<dt.year, dt.month, dt.day, dt.hour, dt.minute, dt.second>>

\* _get_remote_backup_dir (lines 402-413) called at time t: the name under
\* base_dir, as <<fixed part, timestamp part>>
_get_remote_backup_dir(mode, t) ==
    CASE mode = "full" -> <<"", strftime(t)>>
      [] mode = "incremental" -> <<"latest", <<>>>>
      [] mode = "sync" -> <<"sync", <<>>>>
      [] OTHER -> <<"snapshot-", strftime(t)>>

\* lines 78-79: SSHClient.create_directory returns True or False (it catches
\* every exception, ssh_client.py 146-149); the value is not read
create_directory ==
    /\ pc = "create_remote_dir"
    /\ \E ok \in BOOLEAN :
          remote_dir' = IF ok THEN "created" ELSE "failed"
    /\ dirs' = dirs \cup {<<"destination", _get_remote_backup_dir(job.mode, now)>>}
    /\ pc' = "loop"
    /\ UNCHANGED <<job, result, idx, vm_result, res, exc, disk_i, vm_was_running,
                   vm_state, snapshots, calls, vm_log, job_log, ssh, summary, now, svars,
                   rvars, lvars>>

\* _backup_vm lines 122-152 up to the choice of the strategy: a VM missing
\* from the inventory raises, and _backup_vm's own handler (148-151) turns
\* that into a failed entry
_backup_vm ==
    /\ pc = "loop"
    /\ idx <= Len(job.vm_names)
    /\ res' = InitStrategyResult(job.use_snapshots)
    /\ IF vm_state[CurVM] = "absent"
       THEN /\ vm_result' = [InitVMResult EXCEPT !.status = "failed",
                                                 !.error = "VM not found"]
            /\ pc' = VMHandler
       ELSE /\ vm_result' = InitVMResult
            /\ pc' = IF job.use_snapshots THEN "create_snapshot" ELSE "check_running"
    /\ UNCHANGED <<job, result, idx, exc, disk_i, vm_was_running, vm_state, snapshots,
                   calls, remote_dir, vm_log, job_log, ssh, summary, dirs, now, svars,
                   rvars, lvars>>

\* _backup_vm's handler (lines 148-151) reached by the exception e that the
\* strategy re-raises: the entry keeps its initial fields, the strategy's
\* own dict is lost
FailedVMResult(e) ==
    [InitVMResult EXCEPT !.status = "failed", !.error = e]

\* lines 140-146: vm_result.update(strategy result), then status success
SuccessVMResult(r) ==
    [r EXCEPT !.status = "success", !.error = "none"]

\* _backup_vm_with_snapshots lines 170-175
create_snapshot ==
    /\ pc = "create_snapshot"
    /\ \E out \in CallOutcomes :
          /\ calls' = Append(calls, Call("create_snapshot", out)) \o
                (IF out = "false" THEN <<Raised("Failed to create snapshot")>>
                 ELSE IF out = "raise" THEN <<Raised("create_snapshot raised")>>
                 ELSE <<>>)
          /\ CASE out = "ok" ->
                    /\ snapshots' = [snapshots EXCEPT ![CurVM] = @ + 1]
                    /\ res' = [res EXCEPT !.snapshots_created = Append(@, SnapshotName)]
                    /\ exc' = exc
                    /\ pc' = "config_definition"
               [] out = "false" ->
                    /\ exc' = "Failed to create snapshot"
                    /\ pc' = StrategyHandler
                    /\ UNCHANGED <<snapshots, res>>
               [] out = "raise" ->
                    /\ exc' = "create_snapshot raised"
                    /\ pc' = StrategyHandler
                    /\ UNCHANGED <<snapshots, res>>
    /\ UNCHANGED <<job, result, idx, vm_result, disk_i, vm_was_running, vm_state,
                   remote_dir, vm_log, job_log, ssh, summary, dirs, now, svars, rvars,
                   lvars>>

\* outcomes of exporting and transferring the VM definition (lines 259-281):
\* the export reports failure, the transfer succeeds, the transfer reports
\* failure (its value is not read, line 270), or something raises
DefinitionOutcomes ==
    IF job.dry_run THEN {"export_failed", "ok", "raise"}
    ELSE {"export_failed", "ok", "transfer_failed", "raise"}

\* a definition transfer that does not look at dry_run
DefinitionCalls_IgnoresDryRun(out) ==
    CASE out = "export_failed" -> <<Call("export_vm_definition", "false")>>
      [] out = "raise" ->
            <<Call("export_vm_definition", "raise"), Raised("definition export error")>>
      [] out = "ok" ->
            <<Call("export_vm_definition", "ok"), Call("transfer_definition", "ok")>>
      [] out = "transfer_failed" ->
            <<Call("export_vm_definition", "ok"), Call("transfer_definition", "false")>>

DefinitionCalls(out) ==
    CASE out = "export_failed" -> <<Call("export_vm_definition", "false")>>
      [] out = "raise" ->
            <<Call("export_vm_definition", "raise"), Raised("definition export error")>>
      [] out = "ok" ->
            IF job.dry_run THEN <<Call("export_vm_definition", "ok")>>
            ELSE <<Call("export_vm_definition", "ok"), Call("transfer_definition", "ok")>>
      [] out = "transfer_failed" ->
            <<Call("export_vm_definition", "ok"), Call("transfer_definition", "false")>>

\* _backup_vm_config lines 256-281
_backup_vm_config_definition ==
    /\ pc = "config_definition"
    /\ dirs' = dirs \cup {<<"configs", _get_remote_backup_dir(job.mode, now)>>}
    /\ \E out \in DefinitionOutcomes :
          /\ calls' = calls \o DefinitionCalls(out)
          /\ CASE out \in {"ok", "transfer_failed"} ->
                    /\ res' = [res EXCEPT !.files_backed_up = Append(@, "definition"),
                                          !.size_bytes = @ + DefSize]
                    /\ exc' = exc
                    /\ pc' = "config_file"
               [] out = "export_failed" ->
                    /\ pc' = "config_file"
                    /\ UNCHANGED <<res, exc>>
               [] out = "raise" ->
                    /\ exc' = "definition export error"
                    /\ pc' = StrategyHandler
                    /\ res' = res
    /\ UNCHANGED <<job, result, idx, vm_result, disk_i, vm_was_running, vm_state,
                   snapshots, remote_dir, vm_log, job_log, ssh, summary, now, svars,
                   rvars, lvars>>

\* outcomes of the libvirt config file copy (lines 284-301): no such file;
\* dry run lists it; the staged copy succeeds with or without a readable
\* size; the staged copy reports failure; something raises
ConfigFileOutcomes ==
    IF job.dry_run THEN {"absent", "listed"}
    ELSE {"absent", "ok", "copy_failed", "raise"}

\* _backup_vm_config lines 284-301
_backup_vm_config_file ==
    /\ pc = "config_file"
    /\ \E out \in ConfigFileOutcomes :
          /\ calls' = CASE out = "ok" -> Append(calls, Call("transfer_config", "ok"))
                        [] out = "copy_failed" ->
                              Append(calls, Call("transfer_config", "false"))
                        [] out = "raise" -> Append(calls, Raised("config copy error"))
                        [] OTHER -> calls
          /\ CASE out \in {"absent", "copy_failed"} ->
                    /\ pc' = "disk"
                    /\ UNCHANGED <<res, exc>>
               [] out = "listed" ->
                    /\ res' = [res EXCEPT !.files_backed_up = Append(@, "config")]
                    /\ pc' = "disk"
                    /\ exc' = exc
               [] out = "ok" ->
                    /\ res' = [res EXCEPT !.files_backed_up = Append(@, "config"),
                                          !.size_bytes = @ + CfgSize]
                    /\ pc' = "disk"
                    /\ exc' = exc
               [] out = "raise" ->
                    /\ exc' = "config copy error"
                    /\ pc' = StrategyHandler
                    /\ res' = res
    /\ UNCHANGED <<job, result, idx, vm_result, disk_i, vm_was_running, vm_state,
                   snapshots, remote_dir, vm_log, job_log, ssh, summary, dirs, now,
                   svars, rvars, lvars>>

\* outcomes of one disk (lines 363-400): skipped (the file is missing, or
\* its size cannot be read: both log a warning and continue), copied, the
\* copy reports failure (raises at line 400), or something else raises
DiskOutcomes ==
    IF job.dry_run THEN {"missing", "ok", "raise"}
    ELSE {"missing", "ok", "transfer_failed", "raise"}

\* line 393-398: the bytes counted as transferred for one disk
TransferredEstimate(mode, disk_size) ==
    IF mode = "incremental" THEN disk_size \div 10 ELSE disk_size

\* _backup_vm_disks lines 340-400, one iteration of the loop over disk_paths
_backup_vm_disks ==
    /\ pc = "disk"
    /\ disk_i <= MaxDisks
    /\ dirs' = IF disk_i = 1
               THEN dirs \cup {<<"images", _get_remote_backup_dir(job.mode, now)>>}
               ELSE dirs
    /\ \E out \in DiskOutcomes :
          /\ calls' = CASE out = "ok" /\ ~job.dry_run ->
                              Append(calls, Call("transfer_disk", "ok"))
                        [] out = "transfer_failed" ->
                              calls \o <<Call("transfer_disk", "false"),
                                         Raised("Failed to backup disk")>>
                        [] out = "raise" -> Append(calls, Raised("disk copy error"))
                        [] OTHER -> calls
          /\ CASE out = "missing" ->
                    /\ vm_log' = vm_log \cup
                          {<<"warning", "backup_manager", "Disk file not found">>}
                    /\ UNCHANGED <<res, exc>>
                    /\ disk_i' = disk_i + 1
                    /\ pc' = IF disk_i + 1 > MaxDisks THEN AfterTransfers ELSE "disk"
               [] out = "ok" ->
                    /\ res' = [res EXCEPT
                                 !.size_bytes = @ + DiskSize,
                                 !.files_backed_up = Append(@, "disk"),
                                 !.transferred_bytes =
                                     @ + TransferredEstimate(job.mode, DiskSize)]
                    /\ UNCHANGED <<exc, vm_log>>
                    /\ disk_i' = disk_i + 1
                    /\ pc' = IF disk_i + 1 > MaxDisks THEN AfterTransfers ELSE "disk"
               [] out = "transfer_failed" ->
                    /\ res' = [res EXCEPT !.size_bytes = @ + DiskSize]
                    /\ exc' = "Failed to backup disk"
                    /\ pc' = StrategyHandler
                    /\ UNCHANGED <<disk_i, vm_log>>
               [] out = "raise" ->
                    /\ exc' = "disk copy error"
                    /\ pc' = StrategyHandler
                    /\ UNCHANGED <<res, disk_i, vm_log>>
    /\ UNCHANGED <<job, result, idx, vm_result, vm_was_running, vm_state, snapshots,
                   remote_dir, job_log, ssh, summary, now, svars, rvars, lvars>>

\* the hypervisor's part of LibvirtManager.delete_snapshot (vm_manager.py
\* 172-190): only a successful delete removes the snapshot
AfterDelete(snaps, vm, out) ==
    IF out = "ok" /\ snaps[vm] > 0 THEN [snaps EXCEPT ![vm] = @ - 1] ELSE snaps

\* what LibvirtManager.delete_snapshot itself logs when it reports failure
\* (vm_manager.py 188-189)
DeleteLog(out) ==
    IF out = "false" THEN {<<"error", "vm_manager", "Failed to delete snapshot">>}
    ELSE {}

\* a strategy that never deletes the snapshot after the transfers
DeleteAfterTransfers_Never(dry_run) == FALSE

\* line 183: the snapshot is deleted after the transfers unless the job is a
\* dry run
DeleteAfterTransfers(dry_run) == ~dry_run

\* _backup_vm_with_snapshots lines 183-186 and 200, _backup_vm lines 140-146:
\* in a dry run the snapshot is left; otherwise delete_snapshot is called,
\* its return value is not read and the name is removed from the list; an
\* exception of the call reaches the handler of line 188
delete_snapshot ==
    /\ pc = "delete_snapshot"
    /\ \/ /\ ~DeleteAfterTransfers(job.dry_run)
          /\ vm_result' = SuccessVMResult(res)
          /\ pc' = "vm_done"
          /\ UNCHANGED <<calls, snapshots, res, exc, vm_log>>
       \/ /\ DeleteAfterTransfers(job.dry_run)
          /\ \E out \in CallOutcomes :
                /\ calls' = Append(calls, Call("delete_snapshot", out)) \o
                      (IF out = "raise" THEN <<Raised("delete_snapshot raised")>>
                       ELSE <<>>)
                /\ snapshots' = AfterDelete(snapshots, CurVM, out)
                /\ vm_log' = vm_log \cup DeleteLog(out)
                /\ IF out = "raise"
                   THEN /\ exc' = "delete_snapshot raised"
                        /\ pc' = StrategyHandler
                        /\ UNCHANGED <<res, vm_result>>
                   ELSE /\ res' = [res EXCEPT !.snapshots_created = <<>>]
                        /\ vm_result' = SuccessVMResult(res')
                        /\ pc' = "vm_done"
                        /\ exc' = exc
    /\ UNCHANGED <<job, result, idx, disk_i, vm_was_running, vm_state, remote_dir,
                   job_log, ssh, summary, dirs, now, svars, rvars, lvars>>

\* a handler in which a raising cleanup replaces the exception in flight
ReRaised_CleanupMasks(original, cleanup_out) ==
    IF cleanup_out = "raise" THEN "cleanup error" ELSE original

\* the error a failing VM records: the exception the strategy's handler
\* re-raises (raise e, line 198 / 249), whatever the cleanup did
ReRaised(original, cleanup_out) == original

\* a handler that re-raises without deleting the snapshot
CleanupOnError_Never(snapshot_name, snapshots_created) == FALSE

\* line 190: the handler deletes the snapshot only while its name is in
\* snapshots_created
CleanupOnError(snapshot_name, snapshots_created) ==
    \E i \in DOMAIN snapshots_created : snapshots_created[i] = snapshot_name

\* lines 188-198, then _backup_vm's handler 148-151: when the snapshot is in
\* snapshots_created one cleanup delete is attempted, a raising cleanup is
\* logged as a warning, and the original exception is raised again
SnapshotExcept ==
    /\ pc = "snap_except"
    /\ \/ /\ ~CleanupOnError(SnapshotName, res.snapshots_created)
          /\ vm_result' = FailedVMResult(exc)
          /\ UNCHANGED <<calls, snapshots, vm_log>>
       \/ /\ CleanupOnError(SnapshotName, res.snapshots_created)
          /\ \E out \in CallOutcomes :
                /\ calls' = Append(calls, Call("delete_snapshot", out))
                /\ snapshots' = AfterDelete(snapshots, CurVM, out)
                /\ vm_log' = vm_log \cup DeleteLog(out) \cup
                      (IF out = "raise"
                       THEN {<<"warning", "backup_manager", "Failed to cleanup snapshot">>}
                       ELSE {})
                /\ vm_result' = FailedVMResult(ReRaised(exc, out))
    /\ exc' = "none"
    /\ pc' = VMHandler
    /\ UNCHANGED <<job, result, idx, res, disk_i, vm_was_running, vm_state, remote_dir,
                   job_log, ssh, summary, dirs, now, svars, rvars, lvars>>

\* _backup_vm_traditional lines 216-222: the VM is looked up again
CheckRunning ==
    /\ pc = "check_running"
    /\ vm_was_running' = (vm_state[CurVM] = "running")
    /\ pc' = IF vm_was_running' /\ ~job.dry_run THEN "shutdown_vm" ELSE "config_definition"
    /\ UNCHANGED <<job, result, idx, vm_result, res, exc, disk_i, vm_state, snapshots,
                   calls, remote_dir, vm_log, job_log, ssh, summary, dirs, now, svars,
                   rvars, lvars>>

\* lines 222-226
shutdown_vm ==
    /\ pc = "shutdown_vm"
    /\ \E out \in CallOutcomes :
          /\ calls' = Append(calls, Call("shutdown_vm", out)) \o
                (IF out = "false" THEN <<Raised("Failed to stop VM")>>
                 ELSE IF out = "raise" THEN <<Raised("shutdown_vm raised")>>
                 ELSE <<>>)
          /\ CASE out = "ok" ->
                    /\ vm_state' = [vm_state EXCEPT ![CurVM] = "shutdown"]
                    /\ res' = [res EXCEPT !.vm_was_stopped = TRUE]
                    /\ pc' = "config_definition"
                    /\ exc' = exc
               [] out = "false" ->
                    /\ exc' = "Failed to stop VM"
                    /\ pc' = StrategyHandler
                    /\ UNCHANGED <<vm_state, res>>
               [] out = "raise" ->
                    /\ exc' = "shutdown_vm raised"
                    /\ pc' = StrategyHandler
                    /\ UNCHANGED <<vm_state, res>>
    /\ UNCHANGED <<job, result, idx, vm_result, disk_i, vm_was_running, snapshots,
                   remote_dir, vm_log, job_log, ssh, summary, dirs, now, svars, rvars,
                   lvars>>

\* LibvirtManager.start_vm (vm_manager.py 270-289) on the hypervisor
AfterStart(states, vm, out) ==
    IF out = "ok" THEN [states EXCEPT ![vm] = "running"] ELSE states

\* lines 234-238 and 251, _backup_vm lines 140-146
start_vm ==
    /\ pc = "restart_vm"
    /\ \/ /\ ~(vm_was_running /\ ~job.dry_run)
          /\ vm_result' = SuccessVMResult(res)
          /\ pc' = "vm_done"
          /\ UNCHANGED <<calls, vm_state, exc, vm_log>>
       \/ /\ vm_was_running /\ ~job.dry_run
          /\ \E out \in CallOutcomes :
                /\ calls' = Append(calls, Call("start_vm", out)) \o
                      (IF out = "raise" THEN <<Raised("start_vm raised")>> ELSE <<>>)
                /\ vm_state' = AfterStart(vm_state, CurVM, out)
                /\ vm_log' = vm_log \cup
                      (IF out = "false"
                       THEN {<<"error", "backup_manager", "Failed to restart VM">>}
                       ELSE {})
                /\ IF out = "raise"
                   THEN /\ exc' = "start_vm raised"
                        /\ pc' = StrategyHandler
                        /\ UNCHANGED vm_result
                   ELSE /\ vm_result' = SuccessVMResult(res)
                        /\ pc' = "vm_done"
                        /\ exc' = exc
    /\ UNCHANGED <<job, result, idx, res, disk_i, vm_was_running, snapshots, remote_dir,
                   job_log, ssh, summary, dirs, now, svars, rvars, lvars>>

\* lines 240-249, then _backup_vm's handler 148-151
\* a handler that restarts every VM that was running, stopped by it or not
RestartOnError_IgnoresStopped(was_running, was_stopped) == was_running

\* a handler that only re-raises
RestartOnError_Never(was_running, was_stopped) == FALSE

\* _backup_vm_traditional line 242: the handler restarts only a VM that was
\* running and that this backup has stopped
RestartOnError(was_running, was_stopped) == was_running /\ was_stopped

TraditionalExcept ==
    /\ pc = "trad_except"
    /\ \/ /\ ~RestartOnError(vm_was_running, res.vm_was_stopped)
          /\ vm_result' = FailedVMResult(exc)
          /\ UNCHANGED <<calls, vm_state, vm_log>>
       \/ /\ RestartOnError(vm_was_running, res.vm_was_stopped)
          /\ \E out \in CallOutcomes :
                /\ calls' = Append(calls, Call("start_vm", out))
                /\ vm_state' = AfterStart(vm_state, CurVM, out)
                /\ vm_log' = vm_log \cup
                      (IF out = "raise"
                       THEN {<<"error", "backup_manager",
                               "Failed to restart VM after backup error">>}
                       ELSE {})
                /\ vm_result' = FailedVMResult(ReRaised(exc, out))
    /\ exc' = "none"
    /\ pc' = VMHandler
    /\ UNCHANGED <<job, result, idx, res, disk_i, vm_was_running, snapshots, remote_dir,
                   job_log, ssh, summary, dirs, now, svars, rvars, lvars>>

\* execute_backup lines 84-88; _backup_vm has returned, its locals are gone
RecordVMResult ==
    /\ pc = "vm_done"
    /\ result' = [result EXCEPT
          !.vm_results[CurVM] = vm_result,
          !.total_size_bytes =
              IF vm_result.size_bytes > 0 THEN @ + vm_result.size_bytes ELSE @,
          !.transferred_bytes =
              IF vm_result.size_bytes > 0 THEN @ + vm_result.transferred_bytes ELSE @]
    /\ idx' = idx + 1
    /\ pc' = "loop"
    /\ vm_result' = NoEntry
    /\ res' = NoEntry
    /\ calls' = <<>>
    /\ vm_log' = {}
    /\ disk_i' = 1
    /\ vm_was_running' = FALSE
    /\ remote_dir' = "unset"
    /\ UNCHANGED <<job, exc, vm_state, snapshots, job_log, ssh, summary, dirs, now,
                   svars, rvars, lvars>>

\* outcomes of _create_backup_summary (lines 428-475): written, the transfer
\* reports failure (its value is not read), or writing the temporary file raises
SummaryOutcomes ==
    IF job.dry_run THEN {"ok", "raise"} ELSE {"ok", "transfer_failed", "raise"}

\* lines 90-97 with _create_backup_summary: the summary holds the result's
\* status and end_time as they are at that point; without a post-backup
\* script the status becomes completed right after
_create_backup_summary ==
    /\ pc = "loop"
    /\ idx > Len(job.vm_names)
    /\ remote_dir' = "unset"
    /\ \E out \in SummaryOutcomes :
          IF out = "raise"
          THEN /\ exc' = "summary error"
               /\ pc' = "finally"
               /\ UNCHANGED <<summary, result, dirs>>
          ELSE /\ dirs' = dirs \cup
                    {<<"summary", _get_remote_backup_dir(job.mode, now)>>}
               /\ summary' =
                    [written |-> IF job.dry_run THEN "no"
                                 ELSE IF out = "ok" THEN "yes" ELSE "failed",
                     status |-> result.status,
                     end_time |-> result.end_time]
               /\ exc' = exc
               /\ IF job.post_backup_script
                  THEN /\ pc' = "post_script"
                       /\ result' = result
                  ELSE /\ pc' = "finally"
                       /\ result' = [result EXCEPT !.status = "completed"]
    /\ UNCHANGED <<job, idx, vm_result, res, disk_i, vm_was_running, vm_state, snapshots,
                   calls, vm_log, job_log, ssh, now, svars, rvars, lvars>>

\* lines 94-97
PostBackupScript ==
    /\ pc = "post_script"
    /\ \E out \in ScriptOutcomes :
          /\ job_log' = job_log \cup _run_script("post-backup", out)
          /\ IF ScriptRaises(out)
             THEN /\ exc' = "script error"
                  /\ result' = result
             ELSE /\ exc' = exc
                  /\ result' = [result EXCEPT !.status = "completed"]
    /\ pc' = "finally"
    /\ UNCHANGED <<job, idx, vm_result, res, disk_i, vm_was_running, vm_state, snapshots,
                   calls, remote_dir, vm_log, ssh, summary, dirs, now, svars, rvars,
                   lvars>>

\* lines 99-100 and, when nothing is in flight, 107-118: disconnect runs on
\* every exit of the inner try; an exception of its own replaces the one in
\* flight; without an exception execute_backup sets end_time and returns
disconnect ==
    /\ pc = "finally"
    /\ ssh' = "closed"
    /\ \E raises \in BOOLEAN :
          /\ exc' = IF raises THEN "disconnect error" ELSE exc
          /\ IF exc' # "none"
             THEN /\ pc' = ExecuteHandler
                  /\ result' = result
             ELSE /\ pc' = "done"
                  /\ result' = [result EXCEPT !.end_time = "set"]
    /\ UNCHANGED <<job, idx, vm_result, res, disk_i, vm_was_running, vm_state, snapshots,
                   calls, remote_dir, vm_log, job_log, summary, dirs, now, svars, rvars,
                   lvars>>

\* lines 102-118: the handler, then end_time and the return
ExecuteExcept ==
    /\ pc = "except"
    /\ result' = [result EXCEPT !.status = "failed", !.error_message = exc,
                                !.end_time = "set"]
    /\ job_log' = job_log \cup {<<"error", "backup_manager", "job", "Backup job failed">>}
    /\ exc' = "none"
    /\ pc' = "done"
    /\ UNCHANGED <<job, idx, vm_result, res, disk_i, vm_was_running, vm_state, snapshots,
                   calls, remote_dir, vm_log, ssh, summary, dirs, now, svars, rvars,
                   lvars>>

BackupNext ==
    \/ execute_backup
    \/ PreBackupScript
    \/ connect
    \/ create_directory
    \/ _backup_vm
    \/ create_snapshot
    \/ _backup_vm_config_definition
    \/ _backup_vm_config_file
    \/ _backup_vm_disks
    \/ delete_snapshot
    \/ SnapshotExcept
    \/ CheckRunning
    \/ shutdown_vm
    \/ start_vm
    \/ TraditionalExcept
    \/ RecordVMResult
    \/ _create_backup_summary
    \/ PostBackupScript
    \/ disconnect
    \/ ExecuteExcept

Next == BackupNext

Spec == Init /\ [][Next]_vars



\* =====================================================================
\*                  THE SCHEDULE ENGINE (scheduler.py, SpecSched)
\* =====================================================================

\* most definitions ever added
MaxDefs == 2
\* most backup threads ever spawned
MaxThreads == 2
\* most clock advances (of one minute each)
MaxTicks == 2
\* most update_scheduled_backup calls
MaxUpdates == 1
\* most restarts of the process
MaxRestarts == 1

\* the recurrence specs given to add and update: a daily and a monthly slot
\* one minute after StartTime
SchedSpecs ==
    {[schedule_type |-> "daily", schedule_time |-> <<2, 0>>],
     [schedule_type |-> "monthly", schedule_time |-> <<31, 2, 0>>]}

\* malformed specs given to add and update: an unknown schedule type, an
\* unknown day name, an hour out of range
MalformedSpecs ==
    {[schedule_type |-> "hourly", schedule_time |-> <<2, 0>>],
     [schedule_type |-> "weekly", schedule_time |-> <<"someday", 2, 0>>],
     [schedule_type |-> "daily", schedule_time |-> <<25, 0>>]}

\* ScheduledBackup.__init__ (lines 19-32) at time t; next_run is an
\* exception when _calculate_next_run raises and no object is constructed
ScheduledBackup(id, name, vm_names, schedule_type, schedule_time, backup_mode, enabled, t) ==
    [id |-> id, name |-> name, vm_names |-> vm_names,
     schedule_type |-> schedule_type, schedule_time |-> schedule_time,
     backup_mode |-> backup_mode, enabled |-> enabled, last_run |-> None,
     next_run |-> _calculate_next_run(schedule_type, schedule_time, t),
     status |-> "scheduled", created_at |-> t]

\* the name, the VMs and the mode given to add_scheduled_backup (the mode
\* is the default of line 148)
DefName == "nightly"
DefVMs == <<"vm1">>
DefMode == "incremental"

\* datetime.isoformat(): the text, as its fields; "null" for None
isoformat(dt) ==
    IF dt = None THEN <<"null">>
    ELSE <<dt.year, dt.month, dt.day, dt.hour, dt.minute, dt.second>>

\* ScheduledBackup.to_dict
to_dict(o) ==
    [id |-> o.id, name |-> o.name, vm_names |-> o.vm_names,
     schedule_type |-> o.schedule_type, schedule_time |-> o.schedule_time,
     backup_mode |-> o.backup_mode, enabled |-> o.enabled,
     last_run |-> isoformat(o.last_run), next_run |-> isoformat(o.next_run),
     status |-> o.status, created_at |-> isoformat(o.created_at)]

\* datetime.fromisoformat on a text isoformat() produced
fromisoformat(text) == DateTime(text[1], text[2], text[3], text[4], text[5], text[6])

\* data.get(key) is truthy: the text of a datetime, not null
Truthy(text) == Len(text) = 6

\* the constructor call of from_dict(data) at time t raises
from_dict_raises(data, t) ==
    _calculate_next_run(data.schedule_type, data.schedule_time, t) \in Exceptions

\* ScheduledBackup.from_dict(data) at time t (lines 95-112): the
\* constructor runs first and computes next_run at time t; when it does
\* not raise, last_run and next_run are overwritten by the stored values
\* that are not null, then status and created_at by the stored ones.
\* When the constructor raises, the value is the unfinished object, whose
\* next_run is the exception
from_dict(data, t) ==
    LET scheduled == ScheduledBackup(data.id, data.name, data.vm_names,
                                     data.schedule_type, data.schedule_time,
                                     data.backup_mode, data.enabled, t)
    IN  IF from_dict_raises(data, t) THEN scheduled
        ELSE [scheduled EXCEPT
                !.last_run = IF Truthy(data.last_run)
                             THEN fromisoformat(data.last_run) ELSE @,
                !.next_run = IF Truthy(data.next_run)
                             THEN fromisoformat(data.next_run) ELSE @,
                !.status = data.status,
                !.created_at = fromisoformat(data.created_at)]

\* save_scheduled_backups: the file's new content (the write is taken to
\* succeed)
save_scheduled_backups(os, keys) == {to_dict(os[i]) : i \in keys}

\* a file that is no JSON document: the bytes of two writers, mixed
Corrupted == {[corrupted |-> TRUE]}

\* load_scheduled_backups at time t (lines 123-134): the ids loaded from
\* file content. The items are read in the order they were written, the
\* order of insertion, which is the order of the ids; the first from_dict
\* that raises ends the loop (one try around it), and so does a file
\* json.load cannot read
Loaded(content, t) ==
    IF content = Corrupted THEN {}
    ELSE {d.id : d \in {x \in content :
                    \A e \in content : e.id <= x.id => ~from_dict_raises(e, t)}}

\* the object load_scheduled_backups stores for a loaded id
LoadedObject(content, id, t) ==
    from_dict(CHOOSE d \in content : d.id = id, t)

\* a due test that forgets the running guard
IsDue_IgnoresRunning(o, t) ==
    /\ o.enabled
    /\ o.next_run # None
    /\ Seconds(o.next_run) <= Seconds(t)

\* the condition of lines 204-207
IsDue(o, t) ==
    /\ o.enabled
    /\ o.status # "running"
    /\ o.next_run # None
    /\ Seconds(o.next_run) <= Seconds(t)

\* BackupScheduler.get_due_backups: the ids of the due definitions
get_due_backups == {i \in scheduled_backups : IsDue(objs[i], now)}

\* add_scheduled_backup: a constructor that raises adds nothing
add_scheduled_backup ==
    /\ Len(objs) < MaxDefs
    /\ \E sp \in SchedSpecs \cup MalformedSpecs :
          LET id == Len(objs) + 1
              scheduled == ScheduledBackup(id, DefName, DefVMs, sp.schedule_type,
                                           sp.schedule_time, DefMode, TRUE, now)
          IN  /\ scheduled.next_run \notin Exceptions
              /\ objs' = Append(objs, scheduled)
              /\ scheduled_backups' = scheduled_backups \cup {id}
              /\ storage' = save_scheduled_backups(objs', scheduled_backups')
    /\ UNCHANGED <<threads, loop_pc, due_backups, ticks, n_updates, n_restarts, ret, now,
                   bvars, rvars, lvars>>

\* a membership test that takes every id for a known one
Known_Always(backup_id, keys) == TRUE

\* lines 168 and 178: backup_id in self.scheduled_backups
Known(backup_id, keys) == backup_id \in keys

\* update_scheduled_backup(id, enabled=b), lines 176-192: an unknown id
\* returns False at once
update_enabled ==
    /\ n_updates < MaxUpdates
    /\ n_updates' = n_updates + 1
    /\ \E id \in 1..MaxDefs, b \in BOOLEAN :
          IF Known(id, scheduled_backups)
          THEN /\ objs' = [objs EXCEPT ![id].enabled = b]
               /\ storage' = save_scheduled_backups(objs', scheduled_backups)
               /\ ret' = Return("update", id, "True")
          ELSE /\ ret' = Return("update", id, "False")
               /\ UNCHANGED <<objs, storage>>
    /\ UNCHANGED <<scheduled_backups, threads, loop_pc, due_backups, ticks, n_restarts,
                   now, bvars, rvars, lvars>>

\* update_scheduled_backup(id, schedule_type=.., schedule_time=..): the
\* attributes are set first; when the recomputation raises, next_run keeps
\* its value and nothing is saved
update_schedule ==
    /\ n_updates < MaxUpdates
    /\ n_updates' = n_updates + 1
    /\ \E id \in 1..MaxDefs, sp \in SchedSpecs \cup MalformedSpecs :
          LET next_run == _calculate_next_run(sp.schedule_type, sp.schedule_time, now)
          IN  IF Known(id, scheduled_backups)
              THEN /\ objs' = [objs EXCEPT
                         ![id].schedule_type = sp.schedule_type,
                         ![id].schedule_time = sp.schedule_time,
                         ![id].next_run = IF next_run \in Exceptions THEN @
                                          ELSE next_run]
                   /\ storage' = IF next_run \in Exceptions THEN storage
                                 ELSE save_scheduled_backups(objs', scheduled_backups)
                   /\ ret' = Return("update", id,
                                    IF next_run \in Exceptions THEN "raised" ELSE "True")
              ELSE /\ ret' = Return("update", id, "False")
                   /\ UNCHANGED <<objs, storage>>
    /\ UNCHANGED <<scheduled_backups, threads, loop_pc, due_backups, ticks, n_restarts,
                   now, bvars, rvars, lvars>>

\* remove_scheduled_backup (lines 166-174): a known id is deleted from the
\* map, the map is saved and True returned; an unknown id returns False
remove_scheduled_backup ==
    /\ \E id \in 1..MaxDefs :
          IF Known(id, scheduled_backups)
          THEN /\ scheduled_backups' = scheduled_backups \ {id}
               /\ storage' = save_scheduled_backups(objs, scheduled_backups')
               /\ ret' = Return("remove", id, "True")
          ELSE /\ ret' = Return("remove", id, "False")
               /\ UNCHANGED <<scheduled_backups, storage>>
    /\ UNCHANGED <<objs, threads, loop_pc, due_backups, ticks, n_updates, n_restarts,
                   now, bvars, rvars, lvars>>

\* the process starts again: BackupScheduler.__init__ (lines 115-121) with
\* an empty map, then load_scheduled_backups; the threads of the former
\* process are gone
load_scheduled_backups ==
    /\ n_restarts < MaxRestarts
    /\ n_restarts' = n_restarts + 1
    /\ scheduled_backups' = Loaded(storage, now)
    /\ objs' = [id \in DOMAIN objs |->
                  IF id \in scheduled_backups' THEN LoadedObject(storage, id, now)
                  ELSE objs[id]]
    /\ threads' = <<>>
    /\ loop_pc' = "stopped"
    /\ due_backups' = {}
    /\ ret' = NoReturn
    /\ UNCHANGED <<storage, ticks, n_updates, now, bvars, rvars, lvars>>

\* start_scheduler: the loop thread starts
start_scheduler ==
    /\ loop_pc = "stopped"
    /\ loop_pc' = "check"
    /\ UNCHANGED <<objs, scheduled_backups, storage, threads, due_backups, ticks,
                   n_updates, n_restarts, ret, now, bvars, rvars, lvars>>

\* a loop whose evaluation is outside the try block: its exception leaves
\* scheduler_loop
LoopHandler_Propagates == "ended"

\* lines 286-288: an exception of the evaluation is caught inside the while
\* loop, logged, and followed by the handler's own sleep
LoopHandler == "sleep"

\* scheduler_loop lines 260-263: get_due_backups returns the due
\* definitions, or it raises (the map changed size during the iteration)
scheduler_loop_get_due ==
    /\ loop_pc = "check"
    /\ \E raises \in BOOLEAN :
          IF raises
          THEN /\ due_backups' = {}
               /\ loop_pc' = LoopHandler
          ELSE /\ due_backups' = get_due_backups
               /\ loop_pc' = "dispatch"
    /\ UNCHANGED <<objs, scheduled_backups, storage, threads, ticks, n_updates,
                   n_restarts, ret, now, bvars, rvars, lvars>>

\* the ids of set S in increasing order
RECURSIVE InOrder(_)
InOrder(S) ==
    IF S = {} THEN <<>>
    ELSE LET m == CHOOSE x \in S : \A y \in S : x <= y
         IN  <<m>> \o InOrder(S \ {m})

\* scheduler_loop lines 265-281: one thread per due definition
scheduler_loop_dispatch ==
    /\ loop_pc = "dispatch"
    /\ Len(threads) + Cardinality(due_backups) <= MaxThreads
    /\ threads' = threads \o
          [k \in 1..Cardinality(due_backups) |->
              [backup |-> InOrder(due_backups)[k], tpc |-> "start", data |-> {}]]
    /\ due_backups' = {}
    /\ loop_pc' = "sleep"
    /\ UNCHANGED <<objs, scheduled_backups, storage, ticks, n_updates, n_restarts, ret,
                   now, bvars, rvars, lvars>>

\* scheduler_loop line 284: time.sleep(60) returns a minute later
scheduler_loop_sleep ==
    /\ loop_pc = "sleep"
    /\ ticks < MaxTicks
    /\ now' = AddMinute(now)
    /\ ticks' = ticks + 1
    /\ loop_pc' = "check"
    /\ UNCHANGED <<objs, scheduled_backups, storage, threads, due_backups, n_updates,
                   n_restarts, ret, bvars, rvars, lvars>>

\* a minute passes
Tick ==
    /\ ticks < MaxTicks
    /\ now' = AddMinute(now)
    /\ ticks' = ticks + 1
    /\ UNCHANGED <<objs, scheduled_backups, storage, threads, loop_pc, due_backups,
                   n_updates, n_restarts, ret, bvars, rvars, lvars>>

\* execute_scheduled_backup line 215
SetRunning(t) ==
    /\ threads[t].tpc = "start"
    /\ objs' = [objs EXCEPT ![threads[t].backup].status = "running"]
    /\ threads' = [threads EXCEPT ![t].tpc = "backup"]
    /\ UNCHANGED <<scheduled_backups, storage, loop_pc, due_backups, ticks, n_updates,
                   n_restarts, ret, now, bvars, rvars, lvars>>

\* what lines 219-228 end in: execute_backup's result, or an exception of
\* create_backup_job / BackupMode(..)
BackupOutcomes == {"completed", "failed", "raise"}

\* lines 219-237: the backup runs, then the status records its result
RunBackup(t) ==
    /\ threads[t].tpc = "backup"
    /\ \E out \in BackupOutcomes :
          IF out = "raise"
          THEN /\ threads' = [threads EXCEPT ![t].tpc = "except"]
               /\ objs' = objs
          ELSE /\ threads' = [threads EXCEPT ![t].tpc = "update"]
               /\ objs' = [objs EXCEPT ![threads[t].backup].status = out]
    /\ UNCHANGED <<scheduled_backups, storage, loop_pc, due_backups, ticks, n_updates,
                   n_restarts, ret, now, bvars, rvars, lvars>>

\* update_next_run (lines 75-78) on object o at time t: last_run is set
\* first; when the recomputation raises, next_run keeps its value
update_next_run(o, t) ==
    LET next_run == _calculate_next_run(o.schedule_type, o.schedule_time, t)
    IN  [o EXCEPT !.last_run = t,
                  !.next_run = IF next_run \in Exceptions THEN @ ELSE next_run]

\* update_next_run raises on object o at time t
update_next_run_raises(o, t) ==
    _calculate_next_run(o.schedule_type, o.schedule_time, t) \in Exceptions

\* the status set after the recomputation (lines 241 and 248)
Rescheduled == "scheduled"

\* lines 240-241: the recomputation, then the status is scheduled again; an
\* exception of the recomputation reaches the handler of line 243
UpdateNextRun(t) ==
    /\ threads[t].tpc = "update"
    /\ LET id == threads[t].backup
           o == update_next_run(objs[id], now)
       IN  IF update_next_run_raises(objs[id], now)
           THEN /\ objs' = [objs EXCEPT ![id] = o]
                /\ threads' = [threads EXCEPT ![t].tpc = "except"]
           ELSE /\ objs' = [objs EXCEPT ![id] = [o EXCEPT !.status = Rescheduled]]
                /\ threads' = [threads EXCEPT ![t].tpc = "finally"]
    /\ UNCHANGED <<scheduled_backups, storage, loop_pc, due_backups, ticks, n_updates,
                   n_restarts, ret, now, bvars, rvars, lvars>>

\* lines 243-245
HandleException(t) ==
    /\ threads[t].tpc = "except"
    /\ objs' = [objs EXCEPT ![threads[t].backup].status = "failed"]
    /\ threads' = [threads EXCEPT ![t].tpc = "except_update"]
    /\ UNCHANGED <<scheduled_backups, storage, loop_pc, due_backups, ticks, n_updates,
                   n_restarts, ret, now, bvars, rvars, lvars>>

\* lines 247-248: the recomputation inside the handler; when it raises, the
\* exception leaves the handler and the status stays as line 244 set it
HandlerUpdateNextRun(t) ==
    /\ threads[t].tpc = "except_update"
    /\ LET id == threads[t].backup
           o == update_next_run(objs[id], now)
       IN  IF update_next_run_raises(objs[id], now)
           THEN objs' = [objs EXCEPT ![id] = o]
           ELSE objs' = [objs EXCEPT ![id] = [o EXCEPT !.status = Rescheduled]]
    /\ threads' = [threads EXCEPT ![t].tpc = "finally"]
    /\ UNCHANGED <<scheduled_backups, storage, loop_pc, due_backups, ticks, n_updates,
                   n_restarts, ret, now, bvars, rvars, lvars>>

\* line 251, save_scheduled_backups line 139 in the thread of the run: the
\* list of dicts is built from the map as it is now
Finally(t) ==
    /\ threads[t].tpc = "finally"
    /\ threads' = [threads EXCEPT
          ![t].data = save_scheduled_backups(objs, scheduled_backups),
          ![t].tpc = "open"]
    /\ UNCHANGED <<objs, scheduled_backups, storage, loop_pc, due_backups, ticks,
                   n_updates, n_restarts, ret, now, bvars, rvars, lvars>>

\* save_scheduled_backups line 140: open(.., 'w') empties the file
SaveOpen(t) ==
    /\ threads[t].tpc = "open"
    /\ storage' = {}
    /\ threads' = [threads EXCEPT ![t].tpc = "dump"]
    /\ UNCHANGED <<objs, scheduled_backups, loop_pc, due_backups, ticks, n_updates,
                   n_restarts, ret, now, bvars, rvars, lvars>>

\* what the file holds after a writer that opened it writes data from the
\* start: data, or, when another writer has written other bytes since the
\* file was emptied and no lock orders the two (lines 136-144), possibly
\* data followed by the rest of the other's bytes
AfterDump(content, data) ==
    IF content = {} \/ content = data THEN {data} ELSE {data, Corrupted}

\* save_scheduled_backups lines 141-142: json.dump and close write the list
\* built at line 139; execute_scheduled_backup is over
SaveDump(t) ==
    /\ threads[t].tpc = "dump"
    /\ storage' \in AfterDump(storage, threads[t].data)
    /\ threads' = [threads EXCEPT ![t].tpc = "done", ![t].data = {}]
    /\ UNCHANGED <<objs, scheduled_backups, loop_pc, due_backups, ticks, n_updates,
                   n_restarts, ret, now, bvars, rvars, lvars>>

SchedNext ==
    \/ add_scheduled_backup
    \/ update_enabled
    \/ update_schedule
    \/ start_scheduler
    \/ scheduler_loop_get_due
    \/ scheduler_loop_dispatch
    \/ scheduler_loop_sleep
    \/ Tick
    \/ \E t \in DOMAIN threads : SetRunning(t)
    \/ \E t \in DOMAIN threads : RunBackup(t)
    \/ \E t \in DOMAIN threads : UpdateNextRun(t)
    \/ \E t \in DOMAIN threads : HandleException(t)
    \/ \E t \in DOMAIN threads : HandlerUpdateNextRun(t)
    \/ \E t \in DOMAIN threads : Finally(t)
    \/ \E t \in DOMAIN threads : SaveOpen(t)
    \/ \E t \in DOMAIN threads : SaveDump(t)

InitSchedSpec ==
    /\ IdleBackup
    /\ InitLoops
    /\ InitSched
    /\ InitRecur
    /\ now = StartTime

SpecSched == InitSchedSpec /\ [][SchedNext]_vars

\* =====================================================================
\*     THE DEFINITIONS IN MEMORY AND ON FILE, ACROSS RESTARTS (SpecStore)
\* =====================================================================

\* the calls of the management interface, the clock, and the restart of
\* the process, with no scheduler loop started
StoreNext ==
    \/ add_scheduled_backup
    \/ update_enabled
    \/ update_schedule
    \/ remove_scheduled_backup
    \/ load_scheduled_backups
    \/ Tick

SpecStore == InitSchedSpec /\ [][StoreNext]_vars


\* =====================================================================
\*            get_due_backups ON BOUNDED SCHEDULER STATES (SpecDue)
\* =====================================================================

\* the values of next_run explored: before, at and after StartTime
DueTimes ==
    {DateTime(2024, 1, 30, 2, 0, 0), StartTime, DateTime(2024, 1, 31, 2, 0, 0)}

\* the states a definition can be in when the loop asks for the due ones
DueObjects(id) ==
    {[id |-> id, name |-> DefName, vm_names |-> DefVMs,
      schedule_type |-> "daily", schedule_time |-> <<2, 0>>,
      backup_mode |-> DefMode, enabled |-> e, last_run |-> None, next_run |-> t,
      status |-> st, created_at |-> DateTime(2024, 1, 30, 1, 59, 0)] :
        e \in BOOLEAN, t \in DueTimes,
        st \in {"scheduled", "running", "completed", "failed"}}

\* the lists of at most n definitions, the k-th with id k
RECURSIVE ObjLists(_)
ObjLists(n) ==
    IF n = 0 THEN {<<>>}
    ELSE ObjLists(n - 1) \cup
         {Append(q, o) : q \in {x \in ObjLists(n - 1) : Len(x) = n - 1},
                         o \in DueObjects(n)}

\* the loop is about to call get_due_backups; some of the definitions ever
\* added may have been removed
InitDueSpec ==
    /\ IdleBackup
    /\ InitLoops
    /\ InitRecur
    /\ now = StartTime
    /\ objs \in ObjLists(MaxDefs)
    /\ scheduled_backups \in SUBSET DOMAIN objs
    /\ storage = {}
    /\ threads = <<>>
    /\ loop_pc = "check"
    /\ due_backups = {}
    /\ ticks = 0
    /\ n_updates = 0
    /\ n_restarts = 0
    /\ ret = NoReturn

DueNext ==
    \/ scheduler_loop_get_due

SpecDue == InitDueSpec /\ [][DueNext]_vars

\* =====================================================================
\*        THE RECURRENCE COMPUTATION ON BOUNDED INPUTS (SpecRecur)
\* =====================================================================

\* the current times explored: a whole week around the end of January, the
\* ends of February (leap and not), of a 31-day and of a 30-day month, of
\* the year, and a first of month; early, the slot's minute, late
RecurDates ==
    {<<2024, 1, 29>>, <<2024, 1, 30>>, <<2024, 1, 31>>, <<2024, 2, 1>>, <<2024, 2, 2>>,
     <<2024, 2, 3>>, <<2024, 2, 4>>, <<2024, 2, 28>>, <<2024, 2, 29>>, <<2024, 3, 31>>,
     <<2024, 4, 30>>, <<2024, 12, 1>>, <<2024, 12, 31>>, <<2025, 1, 30>>, <<2025, 2, 28>>}

RecurTimes == {<<0, 0, 0>>, <<2, 0, 0>>, <<2, 0, 30>>, <<2, 30, 0>>, <<23, 30, 30>>}

RecurNows ==
    {DateTime(d[1], d[2], d[3], c[1], c[2], c[3]) : d \in RecurDates, c \in RecurTimes}

SlotTimes == {<<0, 0>>, <<2, 0>>, <<23, 30>>}

\* the recurrence specs explored
RecurSpecs ==
    {[schedule_type |-> "daily", schedule_time |-> c] : c \in SlotTimes}
    \cup {[schedule_type |-> "weekly", schedule_time |-> <<d>> \o c] :
            d \in DOMAIN days, c \in SlotTimes}
    \cup {[schedule_type |-> "monthly", schedule_time |-> <<d>> \o c] :
            d \in {1, 15, 28, 29, 30, 31}, c \in SlotTimes}

InitRecurSpec ==
    /\ IdleBackup
    /\ InitLoops
    /\ InitSched
    /\ now \in RecurNows
    /\ rc_in \in RecurSpecs
    /\ rc_out = None
    /\ InitRoundTrip
    /\ InitRate

\* one evaluation of _calculate_next_run() at the current time
CalculateNextRun ==
    /\ rc_out = None
    /\ rc_out' = _calculate_next_run(rc_in.schedule_type, rc_in.schedule_time, now)
    /\ UNCHANGED <<rc_in, rt_in, rt_out, sr_in, sr_out, now, bvars, svars, lvars>>

RecurNext ==
    \/ CalculateNextRun

SpecRecur == InitRecurSpec /\ [][RecurNext]_vars

\* =====================================================================
\*          to_dict / from_dict ON BOUNDED OBJECTS (SpecRoundTrip)
\* =====================================================================

\* the recurrence specs of the objects saved and reloaded
RoundTripSpecs ==
    {[schedule_type |-> "daily", schedule_time |-> <<2, 0>>],
     [schedule_type |-> "weekly", schedule_time |-> <<"sunday", 3, 0>>],
     [schedule_type |-> "monthly", schedule_time |-> <<1, 4, 0>>],
     [schedule_type |-> "monthly", schedule_time |-> <<31, 2, 0>>]}

\* the objects saved: constructed at StartTime, then as runs and updates
\* leave them: any status, enabled or not, with or without a previous run
RoundTripObjects ==
    {[ScheduledBackup(1, DefName, DefVMs, sp.schedule_type, sp.schedule_time, mode,
                      e, StartTime)
        EXCEPT !.status = st, !.last_run = lr] :
        sp \in RoundTripSpecs, mode \in {"full", "incremental"}, e \in BOOLEAN,
        st \in {"scheduled", "running", "completed", "failed"},
        lr \in {None, DateTime(2024, 1, 31, 2, 0, 30)}}

\* the times at which the file is read again
ReloadTimes ==
    {DateTime(2024, 1, 31, 2, 1, 0), DateTime(2024, 2, 28, 0, 0, 0),
     DateTime(2024, 3, 31, 2, 0, 0), DateTime(2024, 12, 31, 23, 30, 30)}

InitRoundTripSpec ==
    /\ IdleBackup
    /\ InitLoops
    /\ InitSched
    /\ rc_in = NoRecurrence
    /\ rc_out = None
    /\ now \in ReloadTimes
    /\ rt_in \in RoundTripObjects
    /\ rt_out = NoObject
    /\ InitRate

\* the object is written with to_dict and read back with from_dict at the
\* current time
RoundTrip ==
    /\ rt_out = NoObject
    /\ rt_out' = from_dict(to_dict(rt_in), now)
    /\ UNCHANGED <<rc_in, rc_out, rt_in, sr_in, sr_out, now, bvars, svars, lvars>>

RoundTripNext ==
    \/ RoundTrip

SpecRoundTrip == InitRoundTripSpec /\ [][RoundTripNext]_vars

\* C5: for every daily, weekly or monthly recurrence spec and every current
\* time, _calculate_next_run returns a timestamp strictly after the current
\* time.
C5_NextRunStrictlyAfterNow ==
    rc_out # None =>
        /\ rc_out # ValueError
        /\ Seconds(rc_out) > Seconds(now)

\* today's date at the hour and minute of a spec
SlotToday(hm) == [now EXCEPT !.hour = hm[1], !.minute = hm[2], !.second = 0]

\* C17: for a weekly spec, _calculate_next_run returns the earliest instant
\* strictly after now that falls on the weekday at hour:minute, so never
\* more than 7 days after now; when the weekday is today and the time has
\* passed, it is the same weekday of the following week.
C17_WeeklyEarliestOccurrence ==
    (rc_in.schedule_type = "weekly" /\ rc_out # None) =>
        LET hm == SubSeq(rc_in.schedule_time, 2, 3)
        IN  /\ rc_out # ValueError
            /\ weekday(rc_out) = days[rc_in.schedule_time[1]]
            /\ <<rc_out.hour, rc_out.minute, rc_out.second>> = hm \o <<0>>
            /\ Seconds(rc_out) > Seconds(now)
            /\ Seconds(rc_out) - Seconds(now) <= 7 * 24 * 3600
            /\ (weekday(now) = days[rc_in.schedule_time[1]]
                  /\ Seconds(SlotToday(hm)) <= Seconds(now)) =>
                     rc_out = AddDays(SlotToday(hm), 7)

\* C18: for a daily spec, _calculate_next_run returns today's slot when it
\* is strictly after now and tomorrow's slot otherwise; the result is
\* strictly after now and at most 24 hours after it.
C18_DailyNextOccurrence ==
    (rc_in.schedule_type = "daily" /\ rc_out # None) =>
        LET slot == SlotToday(rc_in.schedule_time)
        IN  /\ rc_out = IF Seconds(slot) > Seconds(now) THEN slot
                        ELSE [slot EXCEPT !.year = NextDay(now).year,
                                          !.month = NextDay(now).month,
                                          !.day = NextDay(now).day]
            /\ Seconds(rc_out) > Seconds(now)
            /\ Seconds(rc_out) - Seconds(now) <= 24 * 3600

\* C18 witness: 02:00 computed at 03:00 or later gives 02:00 of the
\* following day
C18_Witness ==
    /\ rc_in = [schedule_type |-> "daily", schedule_time |-> <<2, 0>>]
    /\ now = DateTime(2024, 2, 29, 23, 30, 30)
    /\ rc_out = DateTime(2024, 3, 1, 2, 0, 0)

\* C19: for a monthly spec with a day in 1..28, _calculate_next_run returns
\* this month's slot when it is strictly after now, and otherwise the same
\* day, hour and minute of the following month, January of the next year
\* when now is in December.
C19_MonthlyNextOccurrence ==
    (rc_in.schedule_type = "monthly" /\ rc_in.schedule_time[1] \in 1..28
       /\ rc_out # None) =>
        LET slot == [SlotToday(SubSeq(rc_in.schedule_time, 2, 3))
                        EXCEPT !.day = rc_in.schedule_time[1]]
        IN  rc_out = IF Seconds(slot) > Seconds(now) THEN slot
                     ELSE IF now.month = 12
                     THEN [slot EXCEPT !.year = now.year + 1, !.month = 1]
                     ELSE [slot EXCEPT !.month = now.month + 1]

\* C19 witness: the slot of the 15th has passed on 31 December, the result
\* is 15 January of the next year
C19_Witness ==
    /\ rc_in = [schedule_type |-> "monthly", schedule_time |-> <<15, 2, 0>>]
    /\ now = DateTime(2024, 12, 31, 2, 0, 0)
    /\ rc_out = DateTime(2025, 1, 15, 2, 0, 0)

\* C20: for every ScheduledBackup object d, from_dict(to_dict(d)) returns
\* an object with the same id, name, vm_names, schedule_type,
\* schedule_time, backup_mode, enabled, status, created_at, next_run and
\* last_run (None included), whatever the time of the reload.
C20_RoundTripIsIdentity ==
    rt_out # NoObject =>
        /\ rt_out.next_run \notin Exceptions
        /\ \A f \in {"id", "name", "vm_names", "schedule_type", "schedule_time",
                      "backup_mode", "enabled", "status", "created_at", "next_run",
                      "last_run"} : rt_out[f] = rt_in[f]


\* =====================================================================
\*                   PROPERTIES OF THE SCHEDULE ENGINE
\* =====================================================================

\* C3: no two backup threads are ever inside the backup of the same
\* definition at the same time.
C3_NoConcurrentExecution ==
    \A t1 \in DOMAIN threads, t2 \in DOMAIN threads :
        (t1 # t2 /\ threads[t1].backup = threads[t2].backup) =>
            ~(threads[t1].tpc = "backup" /\ threads[t2].tpc = "backup")

\* C4: when execute_scheduled_backup finishes, whatever the outcome, the
\* definition's status is scheduled, last_run is set and next_run is a
\* timestamp strictly after it.
C4_FinishesRescheduled ==
    [][\A t \in DOMAIN threads :
          (threads[t].tpc = "dump" /\ threads'[t].tpc = "done") =>
              LET o == objs'[threads[t].backup]
              IN  /\ o.status = "scheduled"
                  /\ o.last_run # None
                  /\ Seconds(o.next_run) > Seconds(o.last_run)]_vars

\* C6: what the loop gets from get_due_backups is exactly the set of
\* definitions that are enabled, not running, and whose next_run is not
\* after the current time.
C6_DueExactly ==
    [][(loop_pc = "check" /\ loop_pc' = "dispatch") =>
          /\ \A i \in scheduled_backups :
                i \in due_backups' <=>
                    /\ objs[i].enabled
                    /\ objs[i].status # "running"
                    /\ Seconds(objs[i].next_run) <= Seconds(now)
          /\ due_backups' \subseteq scheduled_backups]_vars

\* C6 witness: the loop holds a due definition while another one, whose
\* slot has also come, is running and was left out
C6_Witness ==
    /\ loop_pc = "dispatch"
    /\ \E i \in scheduled_backups, j \in scheduled_backups :
          /\ i \in due_backups
          /\ objs[i].status \in {"scheduled", "completed", "failed"}
          /\ j \notin due_backups
          /\ objs[j].enabled
          /\ objs[j].status = "running"
          /\ Seconds(objs[j].next_run) <= Seconds(now)

\* =====================================================================
\*                 PROPERTIES OF THE BACKUP ORCHESTRATOR
\* =====================================================================

\* positions of calls of capability op in the current _backup_vm
CallsOf(op) == {i \in DOMAIN calls : calls[i][1] = op}

\* the snapshot of the current _backup_vm was created
SnapshotCreated == Call("create_snapshot", "ok") \in {calls[i] : i \in DOMAIN calls}

\* exceptions of the definition / config / disk transfers
TransferErrors ==
    {"definition export error", "config copy error", "Failed to backup disk",
     "disk copy error"}

\* the delete of line 185 was reached (every transfer completed) and it
\* reported failure or raised
FinalDeleteFailed ==
    \E i \in CallsOf("delete_snapshot") :
        /\ calls[i][2] \in {"false", "raise"}
        /\ \A j \in 1..(i - 1) : calls[j][1] \notin {"raised", "delete_snapshot"}

\* the request-level failures: everything execute_backup's handler can see
RequestErrors == {"Failed to connect to backup server", "summary error", "disconnect error"}

\* C1: execute_backup never lets an exception escape: the execution ends
\* only at its return, where the status is completed or failed, end_time is
\* set, and a failed result carries an error message.
C1_NeverRaises ==
    /\ pc # "done" => ENABLED BackupNext
    /\ pc = "done" =>
          /\ result.status \in {"completed", "failed"}
          /\ result.end_time = "set"
          /\ result.status = "failed" => result.error_message # "None"

\* C1 witness: a request that failed after processing its VMs (the
\* summary raised) returned a failed result with the message
C1_Witness ==
    /\ pc = "done"
    /\ result.status = "failed"
    /\ result.error_message = "summary error"
    /\ result.end_time = "set"
    /\ Len(job.vm_names) > 0

\* C2: snapshot strategy, not a dry run: when _backup_vm returns, as many
\* delete_snapshot calls were made as snapshots were created, and a snapshot
\* that no delete removed has its failure in the log.
C2_CreatedEqualsDeleted ==
    (pc = "vm_done" /\ job.use_snapshots /\ ~job.dry_run) =>
        /\ Cardinality(CallsOf("delete_snapshot")) =
              Cardinality({i \in CallsOf("create_snapshot") : calls[i][2] = "ok"})
        /\ (SnapshotCreated /\ Call("delete_snapshot", "ok") \notin
                                  {calls[i] : i \in DOMAIN calls})
              => \E l \in vm_log : l[1] \in {"warning", "error"}

\* C7: once the connection succeeded, every listed name has an entry when
\* execute_backup returns unless a request-level failure cut the loop; an
\* absent VM's entry is failed with "VM not found"; every failed entry
\* carries an error; a failed request failed for a request-level reason,
\* never for a VM's error.
C7_VMFailureIsolated ==
    /\ (pc = "done" /\ ssh = "closed") =>
          \A i \in DOMAIN job.vm_names :
              /\ result.vm_results[job.vm_names[i]].status \in {"success", "failed"}
              /\ Inventory[job.vm_names[i]] = "absent" =>
                    /\ result.vm_results[job.vm_names[i]].status = "failed"
                    /\ result.vm_results[job.vm_names[i]].error = "VM not found"
    /\ \A n \in VMNames :
          result.vm_results[n].status = "failed" => result.vm_results[n].error # "none"
    /\ pc = "vm_done" => (vm_result.status = "failed" => vm_result.error # "none")
    /\ result.error_message \in RequestErrors \cup {"None"}
    /\ (pc = "done" /\ result.status = "failed") => result.error_message \in RequestErrors

\* C7 witness: the first VM is absent, the second one was backed up and the
\* request is completed
C7_Witness ==
    /\ pc = "done"
    /\ job.vm_names = <<"ghost", "vm1">>
    /\ result.vm_results["ghost"].status = "failed"
    /\ result.vm_results["vm1"].status = "success"
    /\ result.status = "completed"

\* C8: when the connection fails or the destination directory cannot be
\* created, no VM is processed and the result is failed with a message.
C8_AbortsBeforeVMs ==
    (ssh = "failed" \/ remote_dir = "failed") =>
        /\ vm_result = NoEntry
        /\ calls = <<>>
        /\ \A n \in VMNames : result.vm_results[n] = NoEntry
        /\ pc = "done" => (result.status = "failed" /\ result.error_message # "None")

\* C9: snapshot strategy: a failed creation is followed by no delete call
\* and the VM fails; a transfer that raises after the creation is followed
\* by exactly one delete attempt and the VM's error is the transfer's.
C9_CleanupKeepsOriginalError ==
    (pc = "vm_done" /\ job.use_snapshots) =>
        /\ (CallsOf("create_snapshot") # {} /\ ~SnapshotCreated) =>
              /\ CallsOf("delete_snapshot") = {}
              /\ vm_result.status = "failed"
        /\ \A i \in CallsOf("raised") :
              calls[i][2] \in TransferErrors =>
                  /\ Cardinality(CallsOf("delete_snapshot")) = 1
                  /\ vm_result.status = "failed"
                  /\ vm_result.error = calls[i][2]

\* C9 witness: the disk transfer failed after the creation, the cleanup
\* delete raised, and the recorded error is the transfer's
C9_Witness ==
    /\ pc = "vm_done"
    /\ job.use_snapshots
    /\ SnapshotCreated
    /\ Raised("Failed to backup disk") \in {calls[i] : i \in DOMAIN calls}
    /\ calls[Len(calls)] = Call("delete_snapshot", "raise")
    /\ vm_result.status = "failed"
    /\ vm_result.error = "Failed to backup disk"

\* C10: when the final delete_snapshot fails after successful transfers,
\* the orchestrator logs a warning and the VM's result is a success.
C10_FinalDeleteFailureIsWarning ==
    (pc = "vm_done" /\ job.use_snapshots /\ ~job.dry_run /\ FinalDeleteFailed) =>
        /\ \E l \in vm_log : l[1] = "warning" /\ l[2] = "backup_manager"
        /\ vm_result.status = "success"

\* the calls that move one of the VM's artifacts to the backup server
TransferOps == {"transfer_definition", "transfer_config", "transfer_disk"}

\* the calls that read or move one of the VM's artifacts
ArtifactOps == TransferOps \cup {"export_vm_definition"}

\* the shutdown of lines 222-226 did not stop the VM
ShutdownFailed ==
    \E i \in CallsOf("shutdown_vm") : calls[i][2] \in {"false", "raise"}

\* the shutdown of lines 222-226 stopped the VM
StoppedByBackup ==
    \E i \in CallsOf("shutdown_vm") : calls[i][2] = "ok"

\* C11: under the traditional strategy without dry run, when the shutdown
\* of a running VM fails, the VM's result is failed with the shutdown's
\* error, and neither a transfer nor a restart of the VM is attempted.
C11_ShutdownFailureStops ==
    (~job.use_snapshots /\ ~job.dry_run /\ ShutdownFailed) =>
        /\ \A i \in DOMAIN calls : calls[i][1] \notin ArtifactOps \cup {"start_vm"}
        /\ pc = "vm_done" =>
              /\ vm_result.status = "failed"
              /\ vm_result.error \in {"Failed to stop VM", "shutdown_vm raised"}

\* C11 witness: the running VM did not stop, and its backup has returned
\* failed without any further call
C11_Witness ==
    /\ pc = "vm_done"
    /\ ~job.use_snapshots /\ ~job.dry_run
    /\ vm_was_running
    /\ calls = <<Call("shutdown_vm", "false"), Raised("Failed to stop VM")>>
    /\ vm_result.status = "failed"
    /\ vm_result.error = "Failed to stop VM"

\* C12: under the traditional strategy, a VM the backup has stopped gets a
\* start_vm attempt before its backup returns, on success and on failure;
\* when a transfer fails after the stop, the restart is attempted before
\* the failure is recorded and the recorded error is the transfer's, even
\* when the restart fails too.
C12_StoppedVMIsRestarted ==
    (~job.use_snapshots /\ StoppedByBackup) =>
        /\ pc = "vm_done" => CallsOf("start_vm") # {}
        /\ \A i \in CallsOf("raised") :
              (calls[i][2] \in TransferErrors /\ vm_result.status = "failed") =>
                  /\ \E j \in CallsOf("start_vm") : j > i
                  /\ vm_result.error = calls[i][2]

\* C12 witness: the VM was stopped, the disk transfer failed, the restart
\* of the handler raised, and the recorded error is the transfer's
C12_Witness ==
    /\ pc = "vm_done"
    /\ ~job.use_snapshots
    /\ StoppedByBackup
    /\ Raised("Failed to backup disk") \in {calls[i] : i \in DOMAIN calls}
    /\ calls[Len(calls)] = Call("start_vm", "raise")
    /\ vm_result.status = "failed"
    /\ vm_result.error = "Failed to backup disk"

\* C13: under the snapshot strategy, within one VM's backup, the snapshot
\* is created before every read or transfer of the VM's definition, config
\* and disks, and when the backup returns a delete_snapshot call follows
\* the last transfer.
C13_SnapshotBracketsTransfers ==
    job.use_snapshots =>
        \A i \in DOMAIN calls :
            /\ calls[i][1] \in ArtifactOps =>
                  \E j \in 1..(i - 1) : calls[j] = Call("create_snapshot", "ok")
            /\ (calls[i][1] \in TransferOps /\ pc = "vm_done") =>
                  \E k \in CallsOf("delete_snapshot") : k > i

\* C13 witness: a VM's backup has returned after a created snapshot, a
\* completed disk transfer and the delete that ends it
C13_Witness ==
    /\ pc = "vm_done"
    /\ job.use_snapshots
    /\ CallsOf("transfer_disk") # {}
    /\ calls[1] = Call("create_snapshot", "ok")
    /\ calls[Len(calls)][1] = "delete_snapshot"
    /\ vm_result.status = "success"

\* a recurrence spec _calculate_next_run can read: a known schedule type,
\* a known day name, a day of month, an hour and a minute in range
WellFormed(schedule_type, schedule_time) ==
    CASE schedule_type = "daily" ->
            schedule_time[1] \in 0..23 /\ schedule_time[2] \in 0..59
      [] schedule_type = "weekly" ->
            /\ schedule_time[1] \in {"monday", "tuesday", "wednesday", "thursday",
                                      "friday", "saturday", "sunday"}
            /\ schedule_time[2] \in 0..23 /\ schedule_time[3] \in 0..59
      [] schedule_type = "monthly" ->
            /\ schedule_time[1] \in 1..31
            /\ schedule_time[2] \in 0..23 /\ schedule_time[3] \in 0..59
      [] OTHER -> FALSE

\* C14: when two definitions due at the same time have run in their own
\* threads and both runs are over, the file is a readable document that
\* holds, for each of the two, the values of its completed run: status
\* scheduled, the new last_run and the new next_run.
C14_ConcurrentRunsPersisted ==
    (/\ Len(threads) = 2
     /\ threads[1].backup # threads[2].backup
     /\ \A t \in DOMAIN threads : threads[t].tpc = "done") =>
        /\ storage # Corrupted
        /\ \A t \in DOMAIN threads :
              LET id == threads[t].backup
              IN  id \in scheduled_backups =>
                    \E d \in storage :
                        /\ d.id = id
                        /\ d.status = "scheduled"
                        /\ d.last_run = isoformat(objs[id].last_run)
                        /\ d.next_run = isoformat(objs[id].next_run)

\* C15: after each add, remove, update and each finished run the file
\* holds exactly the definitions of the in-memory map with their current
\* fields, and a restart rebuilds every definition of the file with all
\* its fields, next_run and last_run included.
C15_PersistedMatchesMemory ==
    [][/\ (\/ add_scheduled_backup
           \/ remove_scheduled_backup
           \/ update_enabled
           \/ update_schedule
           \/ \E t \in DOMAIN threads : SaveDump(t)) =>
              storage' = save_scheduled_backups(objs', scheduled_backups')
       /\ load_scheduled_backups =>
              storage = save_scheduled_backups(objs', scheduled_backups')]_vars

\* C16: a malformed recurrence spec is rejected by add and by update, so
\* that no definition of the in-memory map, which is what get_due_backups
\* examines, and no definition of the file ever carries one.
C16_MalformedSpecRejected ==
    /\ \A id \in scheduled_backups :
          WellFormed(objs[id].schedule_type, objs[id].schedule_time)
    /\ storage # Corrupted =>
          \A d \in storage : WellFormed(d.schedule_type, d.schedule_time)

\* C21: when execute_backup returns from an execution that is not a dry
\* run, the summary has been transferred to the destination.
C21_SummaryTransferred ==
    (pc = "done" /\ ~job.dry_run) => summary.written = "yes"

\* every call of the current _backup_vm succeeded
AllCallsSucceeded == \A i \in DOMAIN calls : calls[i][2] = "ok"

\* C22: a dry run under the snapshot strategy in which every call succeeds
\* has called create_snapshot exactly once and delete_snapshot exactly once
\* when the VM's backup returns.
C22_DryRunDeletesSnapshot ==
    (pc = "vm_done" /\ job.use_snapshots /\ job.dry_run /\ SnapshotCreated
        /\ AllCallsSucceeded) =>
        /\ Cardinality(CallsOf("create_snapshot")) = 1
        /\ Cardinality(CallsOf("delete_snapshot")) = 1

\* the job of the incremental snapshot scenario: one VM, snapshots, no dry run
IncrementalSnapshotJob ==
    /\ job.mode = "incremental"
    /\ job.use_snapshots
    /\ ~job.dry_run
    /\ Len(job.vm_names) = 1

\* the VM's definition and each of its disks were transferred
ArtifactsTransferred ==
    /\ CallsOf("transfer_definition") # {}
    /\ Cardinality(CallsOf("transfer_disk")) = MaxDisks

ScriptFailed(which) ==
    \E l \in job_log : l[1] = "error" /\ l[2] = "backup_manager" /\ l[3] = which

\* C26: after a failing pre-backup script execute_backup goes on to connect,
\* and once connected it processes every VM unless a request-level failure
\* ends it; after a failing post-backup script the result is completed
\* unless the disconnect fails.
C26_HookFailureDoesNotBlock ==
    /\ (pc # "pre_script" /\ ScriptFailed("pre-backup")) =>
          /\ pc # "connect" => ssh # "none"
          /\ (pc = "done" /\ ssh = "closed"
                 /\ result.error_message \notin RequestErrors) =>
                \A i \in DOMAIN job.vm_names :
                    result.vm_results[job.vm_names[i]].status \in {"success", "failed"}
    /\ ScriptFailed("post-backup") =>
          /\ pc = "finally" => result.status = "completed"
          /\ (pc = "done" /\ result.error_message # "disconnect error") =>
                result.status = "completed"

\* C26 witness: both scripts failed, the VM was backed up and the result is
\* completed
C26_Witness ==
    /\ pc = "done"
    /\ ScriptFailed("pre-backup")
    /\ ScriptFailed("post-backup")
    /\ result.status = "completed"
    /\ \A i \in DOMAIN job.vm_names :
          result.vm_results[job.vm_names[i]].status = "success"
    /\ Len(job.vm_names) = 1

\* =====================================================================
\*        THE DESTINATION OF A RUN THAT TAKES TIME (SpecDirs)
\* =====================================================================

\* execute_backup while the clock advances: the steps of the orchestrator
\* interleaved with the clock's
DirsNext ==
    \/ BackupNext
    \/ Tick

\* the jobs of one VM
InitDirs ==
    /\ Init
    /\ Len(job.vm_names) = 1

SpecDirs == InitDirs /\ [][DirsNext]_vars

\* the names execute_backup has used for the directories of kind what
DirsOf(what) == {d[2] : d \in {e \in dirs : e[1] = what}}

\* C30: within one execution in mode full or snapshot, the configs and
\* images directories of every VM and the summary lie under the directory
\* created at the start of the execution.
C30_OneDestination ==
    job.mode \in {"full", "snapshot"} =>
        \A d \in dirs : DirsOf("destination") = {d[2]}

\* =====================================================================
\*            THE SUCCESS RATE OF A RESULT (models.py, SpecRate)
\* =====================================================================

\* most entries of a result's vm_results
MaxResults == 6

\* a mapping with no entry counts as all of its VMs successful
success_rate_EmptyIsFull(vm_results) ==
    LET successful == Cardinality({i \in DOMAIN vm_results :
                                      vm_results[i].status = "success"})
    IN  IF Len(vm_results) = 0 THEN Float(100, 1)
        ELSE Float(successful * 100, Len(vm_results))

\* BackupResult.success_rate (models.py 126-134): 0.0 for an empty
\* vm_results, else (successful / len(vm_results)) * 100, not rounded
success_rate(vm_results) ==
    LET successful == Cardinality({i \in DOMAIN vm_results :
                                      vm_results[i].status = "success"})
    IN  IF Len(vm_results) = 0 THEN Float(0, 1)
        ELSE Float(successful * 100, Len(vm_results))

\* the entries execute_backup records: a success or a failure
RateEntries ==
    {SuccessVMResult(NoEntry), [NoEntry EXCEPT !.status = "failed", !.error = "error"]}

InitRateSpec ==
    /\ IdleBackup
    /\ InitLoops
    /\ InitSched
    /\ now = StartTime
    /\ rc_in = NoRecurrence
    /\ rc_out = None
    /\ InitRoundTrip
    /\ sr_in \in SeqsUpTo(RateEntries, MaxResults)
    /\ sr_out = NoRate

\* one read of the property
SuccessRate ==
    /\ sr_out = NoRate
    /\ sr_out' = success_rate(sr_in)
    /\ UNCHANGED <<rc_in, rc_out, rt_in, rt_out, sr_in, now, bvars, svars, lvars>>

RateNext ==
    \/ SuccessRate

SpecRate == InitRateSpec /\ [][RateNext]_vars

\* the number of hundredths nearest to the float x, ties to the even one
\* (round(x, 2))
Hundredths(x) ==
    LET f == (x.num * 100) \div x.den
        r == (x.num * 100) % x.den
    IN  IF 2 * r > x.den THEN f + 1
        ELSE IF 2 * r = x.den THEN f + (f % 2)
        ELSE f

\* the floats x and y are the same number
SameNumber(x, y) == x.num * y.den = y.num * x.den

\* the successful entries of the result under study
Successful == {i \in DOMAIN sr_in : sr_in[i].status = "success"}

\* C27: for a non-empty vm_results, success_rate is 100 * successful / total
\* rounded to two decimals.
C27_SuccessRateRounded ==
    (sr_out # NoRate /\ Len(sr_in) > 0) =>
        SameNumber(sr_out,
                   Float(Hundredths(Float(100 * Cardinality(Successful), Len(sr_in))),
                         100))

\* C28: for an empty vm_results, success_rate is 0.
C28_EmptySuccessRateIsZero ==
    (sr_out # NoRate /\ Len(sr_in) = 0) => SameNumber(sr_out, Float(0, 1))

\* C28 witness: the success rate of a result without entries has been read
C28_Witness ==
    /\ sr_in = <<>>
    /\ sr_out = Float(0, 1)

\* =====================================================================
\*        THE CALLS OF THE MANAGEMENT INTERFACE (SpecManage)
\* =====================================================================

ManageNext ==
    \/ add_scheduled_backup
    \/ update_enabled
    \/ update_schedule
    \/ remove_scheduled_backup

SpecManage == InitSchedSpec /\ [][ManageNext]_vars

\* the ids of the definitions the schedule file holds
PersistedIds(content) == {d.id : d \in content}

LoopObject(id) ==
    [id |-> id, name |-> DefName, vm_names |-> DefVMs,
     schedule_type |-> "daily", schedule_time |-> <<2, 0>>,
     backup_mode |-> DefMode, enabled |-> TRUE, last_run |-> None,
     next_run |-> IF id = 1 THEN StartTime ELSE AddMinute(StartTime),
     status |-> "scheduled", created_at |-> DateTime(2024, 1, 30, 1, 59, 0)]

\* the scheduler has been loaded with MaxDefs definitions, saved, and
\* start_scheduler has started the loop
InitLoopSpec ==
    /\ IdleBackup
    /\ InitLoops
    /\ InitRecur
    /\ now = StartTime
    /\ objs = [i \in 1..MaxDefs |-> LoopObject(i)]
    /\ scheduled_backups = 1..MaxDefs
    /\ storage = save_scheduled_backups(objs, scheduled_backups)
    /\ threads = <<>>
    /\ loop_pc = "check"
    /\ due_backups = {}
    /\ ticks = 0
    /\ n_updates = 0
    /\ n_restarts = 0
    /\ ret = NoReturn

\* the loop and the runs it starts, each run up to the save that ends it
\* (the save writes the file, which the loop does not read)
LoopNext ==
    \/ scheduler_loop_get_due
    \/ scheduler_loop_dispatch
    \/ scheduler_loop_sleep
    \/ \E t \in DOMAIN threads : SetRunning(t)
    \/ \E t \in DOMAIN threads : RunBackup(t)
    \/ \E t \in DOMAIN threads : UpdateNextRun(t)
    \/ \E t \in DOMAIN threads : HandleException(t)
    \/ \E t \in DOMAIN threads : HandlerUpdateNextRun(t)

SpecLoop == InitLoopSpec /\ [][LoopNext]_vars

\* the loop thread is scheduled again and again: get_due_backups ends (the
\* map is finite), Thread.start returns, time.sleep(60) returns
SpecLoopLive ==
    /\ SpecLoop
    /\ WF_vars(scheduler_loop_get_due)
    /\ WF_vars(scheduler_loop_dispatch)
    /\ WF_vars(scheduler_loop_sleep)

\* the threads started for definition i
ThreadsOf(ts, i) == {t \in DOMAIN ts : ts[t].backup = i}

\* a run is in progress: its thread is past line 215 and before the save
InProgress(t) == threads[t].tpc \in {"backup", "update", "except", "except_update"}

\* the loop has used up the wake-ups or the threads explored
LoopBoundReached ==
    \/ ticks = MaxTicks
    \/ loop_pc = "dispatch" /\ Len(threads) + Cardinality(due_backups) > MaxThreads

\* C24: once started the loop never ends, whatever an evaluation or a run
\* does: every step leaves it at one of its positions, and a step of a run
\* does not move it; an evaluation that returns hands over every definition
\* that is due and not running, and the dispatch starts a thread for each
\* of them, whatever runs are in progress; and the loop goes on to its
\* next wake-up as long as wake-ups and threads are left to explore.
C24_LoopKeepsDispatching ==
    /\ [][/\ loop_pc' \in {"check", "dispatch", "sleep"}
          /\ (\E t \in DOMAIN threads : threads'[t] # threads[t]) =>
                loop_pc' = loop_pc
          /\ (loop_pc = "check" /\ loop_pc' = "dispatch") =>
                \A i \in scheduled_backups :
                    (/\ objs[i].enabled
                     /\ objs[i].status # "running"
                     /\ Seconds(objs[i].next_run) <= Seconds(now))
                        => i \in due_backups'
          /\ (loop_pc = "dispatch" /\ loop_pc' = "sleep") =>
                /\ \A i \in due_backups :
                      ThreadsOf(threads', i) \ ThreadsOf(threads, i) # {}
                /\ \A t \in DOMAIN threads : threads'[t] = threads[t]
         ]_vars
    /\ <>LoopBoundReached

\* C24 witness: the loop has woken up again
\* and holds a due definition to dispatch while the run of another
\* definition is in progress
C24_Witness ==
    /\ loop_pc = "dispatch"
    /\ ticks > 0
    /\ \E i \in due_backups, t \in DOMAIN threads :
          /\ threads[t].backup # i
          /\ InProgress(t)
          /\ objs[threads[t].backup].status = "running"

\* =====================================================================
\*       THE LOOP AFTER A RESTART OF THE PROCESS (SpecRestart)
\* =====================================================================

\* the former process holds some definitions and has saved them as they
\* were at that moment: a run of any of them may have been in progress
InitRestartSpec ==
    /\ IdleBackup
    /\ InitLoops
    /\ InitRecur
    /\ now = StartTime
    /\ objs \in ObjLists(MaxDefs)
    /\ scheduled_backups = DOMAIN objs
    /\ storage = save_scheduled_backups(objs, scheduled_backups)
    /\ threads = <<>>
    /\ loop_pc = "stopped"
    /\ due_backups = {}
    /\ ticks = 0
    /\ n_updates = 0
    /\ n_restarts = 0
    /\ ret = NoReturn

RestartNext ==
    \/ load_scheduled_backups
    \/ start_scheduler
    \/ scheduler_loop_get_due
    \/ scheduler_loop_dispatch
    \/ scheduler_loop_sleep

SpecRestart == InitRestartSpec /\ [][RestartNext]_vars

\* C29: after a restart, every evaluation of the loop that returns hands
\* over every loaded definition that is enabled, whose next_run has come and
\* for which this process has started no run, whatever status the file
\* held for it.
C29_DueAfterRestart ==
    [][(n_restarts > 0 /\ loop_pc = "check" /\ loop_pc' = "dispatch") =>
          \A i \in scheduled_backups :
              (/\ objs[i].enabled
               /\ Seconds(objs[i].next_run) <= Seconds(now)
               /\ \A t \in DOMAIN threads : threads[t].backup # i)
                  => i \in due_backups']_vars

\* the transfer call that moves each kind of artifact
TransferOf(kind) ==
    CASE kind = "definition" -> "transfer_definition"
      [] kind = "config" -> "transfer_config"
      [] OTHER -> "transfer_disk"

\* C31: when execute_backup is not a dry run, every artifact listed in the
\* files_backed_up of the VM being backed up is one whose transfer call
\* reported success.
C31_ListedWereTransferred ==
    ~job.dry_run =>
        \A k \in DOMAIN res.files_backed_up :
            \E i \in CallsOf(TransferOf(res.files_backed_up[k])) : calls[i][2] = "ok"

\* C32: when execute_backup returns, a VM of the job holds a snapshot of
\* this execution if and only if snapshots_created of its result entry is
\* not empty.
C32_LeftSnapshotsAreReported ==
    pc = "done" =>
        \A k \in DOMAIN job.vm_names :
            snapshots[job.vm_names[k]] > 0 <=>
                result.vm_results[job.vm_names[k]].snapshots_created # <<>>

\* C33: under the traditional strategy without dry run, a VM that was
\* running before its backup and whose backup returns a success is running
\* again.
C33_SuccessMeansRestarted ==
    (pc = "vm_done" /\ ~job.use_snapshots /\ ~job.dry_run /\ vm_was_running
        /\ vm_result.status = "success") =>
        vm_state[CurVM] = "running"

\* C34: when execute_backup returns, every entry of vm_results has status
\* success or failed (never pending) and records the method the job's
\* use_snapshots selects; a failed entry carries an error, a success entry none
C34_EntriesAreSettled ==
    pc = "done" =>
        \A n \in VMNames :
            LET e == result.vm_results[n] IN
            e.status # "absent" =>
                /\ e.status \in {"success", "failed"}
                /\ e.method = (IF job.use_snapshots THEN "snapshot" ELSE "traditional")
                /\ e.status = "failed" => e.error # "none"
                /\ e.status = "success" => e.error = "none"

RECURSIVE SumOver(_, _, _)
\* the sum of field f ("size" or "transferred") of the entries under names S
SumOver(entries, S, f) ==
    IF S = {} THEN 0
    ELSE LET n == CHOOSE x \in S : TRUE IN
         (IF f = "size" THEN entries[n].size_bytes ELSE entries[n].transferred_bytes)
             + SumOver(entries, S \ {n}, f)

\* C35: after each VM has been processed and at return, the job's
\* total_size_bytes and transferred_bytes are the sums of the entries'
\* size_bytes and transferred_bytes, and transferred never exceeds total
C35_TotalsAreSums ==
    (pc \in {"loop", "done"} /\ result.status # "none") =>
        /\ result.total_size_bytes = SumOver(result.vm_results, VMNames, "size")
        /\ result.transferred_bytes = SumOver(result.vm_results, VMNames, "transferred")
        /\ result.transferred_bytes <= result.total_size_bytes

\* the kinds of artifact listed in a files_backed_up
Listed(files) == {files[k] : k \in DOMAIN files}

\* C36: in a dry run, under either strategy, no artifact and no summary is
\* copied (no transfer is called, no summary is written), no VM is shut down
\* or started (no such call, and no VM changes state), and the artifacts a
\* real run would transfer are still listed: the definition when its export
\* succeeded, every disk when none was missing.
C36_DryRunTouchesNothing ==
    /\ [](job.dry_run =>
            /\ \A i \in DOMAIN calls :
                  calls[i][1] \notin TransferOps \cup {"shutdown_vm", "start_vm"}
            /\ summary.written = "no"
            /\ (pc = "vm_done" /\ vm_result.status = "success") =>
                  /\ "definition" \in Listed(vm_result.files_backed_up)
                        <=> CallsOf("export_vm_definition") # {}
                               /\ \A i \in CallsOf("export_vm_definition") :
                                     calls[i][2] = "ok"
                  /\ <<"warning", "backup_manager", "Disk file not found">> \notin vm_log
                        => Cardinality({k \in DOMAIN vm_result.files_backed_up :
                                          vm_result.files_backed_up[k] = "disk"}) = MaxDisks)
    /\ [][job.dry_run => vm_state' = vm_state]_vars

\* a dry run of a running VM under the traditional strategy has returned a
\* success that lists the definition, the config file and the disk
C36_Witness ==
    /\ job.dry_run /\ ~job.use_snapshots
    /\ pc = "vm_done"
    /\ vm_was_running
    /\ vm_result.status = "success"
    /\ vm_result.files_backed_up = <<"definition", "config", "disk">>
    /\ vm_state[CurVM] = "running"

\* C37: the summary written for a request records the same status and end
\* time as the BackupResult execute_backup returns: it never says "running"
\* with no end time when the returned result is completed or failed.
C37_SummaryMatchesResult ==
    (pc = "done" /\ summary.written = "yes") =>
        /\ summary.status = result.status
        /\ summary.end_time = result.end_time

\* =====================================================================
\*        AN UPDATE THAT NAMES THE ID ATTRIBUTE (SpecIds)
\* =====================================================================

\* update_scheduled_backup(id, id=v), lines 176-192: the keyword arguments
\* come from the request's JSON body (kvm_monitor.py 1270-1272); 'id' is an
\* attribute of the object, hasattr is true and setattr replaces it, while
\* the object stays under its key in the map; the map is saved
update_id ==
    /\ n_updates < MaxUpdates
    /\ n_updates' = n_updates + 1
    /\ \E id \in 1..MaxDefs, v \in 1..MaxDefs :
          IF Known(id, scheduled_backups)
          THEN /\ objs' = [objs EXCEPT ![id].id = v]
               /\ storage' = save_scheduled_backups(objs', scheduled_backups)
               /\ ret' = Return("update", id, "True")
          ELSE /\ ret' = Return("update", id, "False")
               /\ UNCHANGED <<objs, storage>>
    /\ UNCHANGED <<scheduled_backups, threads, loop_pc, due_backups, ticks, n_restarts,
                   now, bvars, rvars, lvars>>

\* the calls of the management interface, any attribute updated
IdsNext ==
    \/ ManageNext
    \/ update_id

SpecIds == InitSchedSpec /\ [][IdsNext]_vars

\* C38: after any sequence of add, update and remove calls, every entry of
\* the in-memory map is stored under the key equal to its definition's id,
\* and the ids persisted in the file are exactly the map's keys.
C38_KeysAreIds ==
    /\ \A k \in scheduled_backups : objs[k].id = k
    /\ PersistedIds(storage) = scheduled_backups

\* =====================================================================
\*        A DEFINITION REMOVED WHILE ITS RUN IS GOING ON (SpecRemove)
\* =====================================================================

\* execute_scheduled_backup(i) has been started in a thread and has not
\* returned from the save of line 251
Running(ts, i) == \E t \in ThreadsOf(ts, i) : ts[t].tpc # "done"

\* remove_scheduled_backup called from the management interface for a
\* definition whose run is going on in its thread
RemoveDuringRun ==
    /\ remove_scheduled_backup
    /\ ret'.value = "True"
    /\ Running(threads, ret'.id)

\* the loop, the runs it starts up to the end of their save, and the
\* removal of a definition that is being run
RemoveNext ==
    \/ LoopNext
    \/ \E t \in DOMAIN threads : Finally(t)
    \/ \E t \in DOMAIN threads : SaveOpen(t)
    \/ \E t \in DOMAIN threads : SaveDump(t)
    \/ RemoveDuringRun

SpecRemove == InitLoopSpec /\ [][RemoveNext]_vars

\* C39: a definition removed while its run was in progress is, once that
\* run has finished and saved, neither in the map nor in the file, and it
\* is not handed to the dispatch again.
C39_RemovedStaysRemoved ==
    (ret.op = "remove" /\ ~Running(threads, ret.id)) =>
        /\ ret.id \notin scheduled_backups
        /\ ret.id \notin due_backups
        /\ storage # Corrupted => ret.id \notin PersistedIds(storage)

\* =====================================================================
\*     start_scheduler AND stop_scheduler CALLED IN ANY ORDER (SpecLoops)
\* =====================================================================

\* most start_scheduler calls
MaxStarts == 2

\* a scheduler_loop thread as Thread.start leaves it (lines 291-293): at
\* the test of line 259, with no due_backups and no sleep begun
NewLoop == [lpc |-> "while", due |-> {}, wake |-> None]

\* start_scheduler, lines 253-295: the flag is set and a new thread is
\* started, whether or not a loop thread exists already
StartScheduler ==
    /\ Len(loops) < MaxStarts
    /\ running' = TRUE
    /\ loops' = Append(loops, NewLoop)
    /\ UNCHANGED <<now, bvars, svars, rvars>>

\* stop_scheduler, lines 297-300: the flag is cleared, no thread is joined
StopScheduler ==
    /\ running' = FALSE
    /\ UNCHANGED <<loops, now, bvars, svars, rvars>>

\* line 259: while self.running, in loop thread l
LoopWhile(l) ==
    /\ loops[l].lpc = "while"
    /\ loops' = [loops EXCEPT ![l].lpc = IF running THEN "check" ELSE "ended"]
    /\ UNCHANGED <<running, now, bvars, svars, rvars>>

\* lines 260-263 and 286-288 in loop thread l: get_due_backups returns the
\* due definitions, or it raises and the handler sleeps
LoopGetDue(l) ==
    /\ loops[l].lpc = "check"
    /\ \E raises \in BOOLEAN :
          loops' = IF raises
                   THEN [loops EXCEPT ![l].lpc = LoopHandler,
                                      ![l].wake = AddMinute(now)]
                   ELSE [loops EXCEPT ![l].due = get_due_backups,
                                      ![l].lpc = "dispatch"]
    /\ UNCHANGED <<running, now, bvars, svars, rvars>>

\* lines 265-284 in loop thread l: one thread per due definition, then
\* time.sleep(60) begins
LoopDispatch(l) ==
    /\ loops[l].lpc = "dispatch"
    /\ Len(threads) + Cardinality(loops[l].due) <= MaxThreads
    /\ threads' = threads \o
          [k \in 1..Cardinality(loops[l].due) |->
              [backup |-> InOrder(loops[l].due)[k], tpc |-> "start", data |-> {}]]
    /\ loops' = [loops EXCEPT ![l].due = {}, ![l].lpc = "sleep",
                              ![l].wake = AddMinute(now)]
    /\ UNCHANGED <<running, objs, scheduled_backups, storage, loop_pc, due_backups,
                   ticks, n_updates, n_restarts, ret, now, bvars, rvars>>

\* line 284 or 288 in loop thread l: time.sleep(60) returns once a minute
\* has passed
LoopWake(l) ==
    /\ loops[l].lpc = "sleep"
    /\ Seconds(loops[l].wake) <= Seconds(now)
    /\ loops' = [loops EXCEPT ![l].lpc = "while"]
    /\ UNCHANGED <<running, now, bvars, svars, rvars>>

\* the scheduler has been loaded with MaxDefs definitions and saved; no
\* start_scheduler call has been made
InitLoopsSpec ==
    /\ IdleBackup
    /\ InitLoops
    /\ InitRecur
    /\ now = StartTime
    /\ objs = [i \in 1..MaxDefs |-> LoopObject(i)]
    /\ scheduled_backups = 1..MaxDefs
    /\ storage = save_scheduled_backups(objs, scheduled_backups)
    /\ threads = <<>>
    /\ loop_pc = "stopped"
    /\ due_backups = {}
    /\ ticks = 0
    /\ n_updates = 0
    /\ n_restarts = 0
    /\ ret = NoReturn

\* the calls that start and stop the scheduler, the loop threads, the
\* first step of the runs they start, and the clock
LoopsNext ==
    \/ StartScheduler
    \/ StopScheduler
    \/ \E l \in DOMAIN loops : LoopWhile(l)
    \/ \E l \in DOMAIN loops : LoopGetDue(l)
    \/ \E l \in DOMAIN loops : LoopDispatch(l)
    \/ \E l \in DOMAIN loops : LoopWake(l)
    \/ \E t \in DOMAIN threads : SetRunning(t)
    \/ Tick

SpecLoops == InitLoopsSpec /\ [][LoopsNext]_vars

\* the loop threads inside the body of their while loop, evaluating or
\* dispatching
LoopsInBody == {l \in DOMAIN loops : loops[l].lpc \in {"check", "dispatch"}}

\* C40: whatever start_scheduler and stop_scheduler calls were made, at
\* most one dispatch loop is at work, and a due definition is held for
\* dispatch by at most one loop.
C40_OneLoop ==
    /\ Cardinality(LoopsInBody) <= 1
    /\ \A a \in DOMAIN loops, b \in DOMAIN loops :
          a # b => loops[a].due \cap loops[b].due = {}

====
